---- MODULE Spec2Model ----
(***************************************************************************)
(* Model of the otel-helpers repository: the correlated log handler and    *)
(* the logging helpers of package telemetry, the HTTP metrics recorder,    *)
(* SetupWithConfig and NewClient, the HTTP middleware, and the demo        *)
(* service of main.go.                                                     *)
(*                                                                         *)
(* The specifications share the module, one per subsystem:                 *)
(*   SpecLog         CorrelatedHandler and the TelemetryClient log helpers *)
(*   SpecMetrics     HTTPMetrics.RecordRequest / RecordError under workers *)
(*   SpecSoma        the /soma handler of main.go, in both revisions       *)
(*   SpecSomaMetrics the /soma handler of the revision with metrics        *)
(*   SpecMain        main: setup, deferred shutdown, server, process exit  *)
(*   SpecSetup       SetupWithConfig / NewClient, called one after another *)
(*   SpecMiddleware  NewHTTPMetrics, then requests through HTTPMiddleware  *)
(*   SpecSetupConcurrent  SetupWithConfig called from several goroutines   *)
(*   SpecExample     ExampleUsage and the /api/users handler it registers  *)
(***************************************************************************)
EXTENDS Integers, Sequences, FiniteSets, Bags, TLC

VARIABLES
    logger,     \* the slog.Handler behind c.Logger (root or a derived handler)
    call,       \* the operation last invoked, with its arguments (ctx's span included)
    effects,    \* what that operation did to the span and the wrapped handler, in order
    httpMetrics,      \* the HTTPMetrics struct: its three instruments' aggregates
    workers,          \* per worker: position inside its call and the call's arguments
    revision,         \* which revision of main.go is running
    reqs,             \* /soma: per request, the handler's position and locals
    somaCounters,     \* /soma: the instruments CreateMetrics returns
    outbound,         \* /soma: outbound calls issued to the downstream service
    proc,             \* the demo service's process: main's position, deferred calls, exit
    env,              \* the process environment (os.Setenv / os.Getenv)
    setups,           \* per invocation of SetupWithConfig / NewClient: position and locals
    providers,        \* the global tracer and meter providers (0 = the default no-op)
    mk,               \* the call of NewHTTPMetrics: position, instruments created, result
    mw,               \* per request through HTTPMiddleware: position, responseWriter, calls
    mwMetrics,        \* the HTTPMetrics the middleware records into
    ex                \* ExampleUsage: position, deferred calls, client, handler, requests

logVars     == <<logger, call, effects>>
metricVars  == <<httpMetrics, workers>>
somaVars    == <<revision, reqs, somaCounters, outbound>>
setupVars   == <<env, setups, providers>>
mwVars      == <<mk, mw, mwMetrics>>
restVars    == <<proc, ex, setupVars, mwVars>>
vars        == <<logVars, metricVars, somaVars, restVars>>

(***************************************************************************)
(* Bounds of the model.                                                    *)
(***************************************************************************)
MaxID      == 1     \* trace and span identifiers range over 0..MaxID (0 = invalid)
MaxDerive  == 2     \* WithAttrs/WithGroup derivations applied to the root handler
MaxWorkers == 3     \* concurrently running workers, each making one metrics call
MaxReqs    == 2     \* /soma requests, handled concurrently
MaxSetups  == 2     \* invocations of SetupWithConfig / NewClient
MaxMwReqs  == 1     \* requests passing through HTTPMiddleware, concurrently
MaxWrites  == 2     \* calls the wrapped handler makes on the response writer
MaxExReqs  == 2     \* requests handed to the /api/users handler of ExampleUsage

(***************************************************************************)
(* Go values (the dynamic type and payload of an `any`), slog attributes   *)
(* and records.                                                            *)
(***************************************************************************)
GoString(s)  == [t |-> "string",  s |-> s,  n |-> 0]
GoInt(n)     == [t |-> "int",     s |-> "", n |-> n]
GoInt64(n)   == [t |-> "int64",   s |-> "", n |-> n]
GoInt32(n)   == [t |-> "int32",   s |-> "", n |-> n]
GoFloat64(n) == [t |-> "float64", s |-> "", n |-> n]   \* n: the value in hundredths
GoBool(b)    == [t |-> "bool",    s |-> "", n |-> IF b THEN 1 ELSE 0]

Attr(k, v)      == [key |-> k, value |-> v]
NewRecord(level, msg, attrs) == [level |-> level, msg |-> msg, attrs |-> attrs]
NoRecord        == NewRecord("", "", <<>>)

\* slog.Record.AddAttrs: appends to the record's attributes.
AddAttrs(record, attrs) == [record EXCEPT !.attrs = @ \o attrs]

\* slog's pairing of a flat key, value, key, value ... argument list.
RECURSIVE ArgsToAttrs(_)
ArgsToAttrs(args) ==
    IF Len(args) = 0 THEN <<>>
    ELSE IF args[1].t # "string" \/ Len(args) = 1
         THEN <<Attr("!BADKEY", args[1])>> \o ArgsToAttrs(Tail(args))
         ELSE <<Attr(args[1].s, args[2])>> \o ArgsToAttrs(SubSeq(args, 3, Len(args)))

(***************************************************************************)
(* Span context.                                                           *)
(***************************************************************************)
IDs == 0..MaxID

\* With no span in the context trace.SpanFromContext returns the no-op span.
NoopSpan == [recording |-> FALSE, traceID |-> 0, spanID |-> 0, sampled |-> FALSE]
Spans    == [recording : BOOLEAN, traceID : IDs, spanID : IDs, sampled : BOOLEAN]

IsRecording(sp) == sp.recording
IsValid(sp)     == sp.traceID # 0 /\ sp.spanID # 0
IsSampled(sp)   == sp.sampled

HexDigits == <<"0", "1", "2", "3", "4", "5", "6", "7",
               "8", "9", "a", "b", "c", "d", "e", "f">>
RECURSIVE Hex(_, _)
Hex(n, width) ==
    IF width = 0 THEN ""
    ELSE Hex(n \div 16, width - 1) \o HexDigits[(n % 16) + 1]

TraceIDString(id) == Hex(id, 32)   \* TraceID is 16 bytes
SpanIDString(id)  == Hex(id, 16)   \* SpanID is 8 bytes

DecDigits == <<"0", "1", "2", "3", "4", "5", "6", "7", "8", "9">>
RECURSIVE Itoa(_)
Itoa(n) ==
    IF n < 10 THEN DecDigits[n + 1]
    ELSE Itoa(n \div 10) \o DecDigits[(n % 10) + 1]

\* fmt.Sprintf("%v", v) on the values the model passes to it.
Sprint(v) ==
    IF v.t = "string" THEN v.s
    ELSE IF v.t = "bool" THEN (IF v.n = 1 THEN "true" ELSE "false")
    ELSE Itoa(v.n)

(***************************************************************************)
(* Effects of an operation on its collaborators.                           *)
(***************************************************************************)
\* An error value; err.Error() is its description.
NewError(desc) == [desc |-> desc]
NoError        == NewError("")
ErrorString(err) == err.desc

HandleEffect(inner, record) ==
    [kind |-> "handler.Handle", handler |-> inner, record |-> record,
     err |-> NoError, attrs |-> <<>>]
RecordErrorEffect(err) ==
    [kind |-> "span.RecordError", handler |-> <<>>, record |-> NoRecord,
     err |-> err, attrs |-> <<>>]
SetAttributesEffect(kvs) ==
    [kind |-> "span.SetAttributes", handler |-> <<>>, record |-> NoRecord,
     err |-> NoError, attrs |-> kvs]

Deliveries(es) == SelectSeq(es, LAMBDA e : e.kind = "handler.Handle")
SpanErrors(es) == SelectSeq(es, LAMBDA e : e.kind = "span.RecordError")
SpanSets(es)   == SelectSeq(es, LAMBDA e : e.kind = "span.SetAttributes")

(***************************************************************************)
(* CorrelatedHandler.                                                      *)
(*                                                                         *)
(* The wrapped slog.Handler is represented by the derivations applied to   *)
(* the sink (a JSON handler on standard output): a sequence of             *)
(* WithAttrs/WithGroup items.  A handler value is either a                 *)
(* CorrelatedHandler around such an inner handler or the inner handler     *)
(* itself.                                                                 *)
(***************************************************************************)
AttrsItem(attrs) == [op |-> "WithAttrs", attrs |-> attrs, name |-> ""]
GroupItem(name)  == [op |-> "WithGroup", attrs |-> <<>>, name |-> name]

InnerWithAttrs(inner, attrs) == Append(inner, AttrsItem(attrs))
InnerWithGroup(inner, name)  == Append(inner, GroupItem(name))

CorrelatedHandler(inner) == [kind |-> "CorrelatedHandler", handler |-> inner]
BareHandler(inner)       == [kind |-> "inner", handler |-> inner]

NewCorrelatedLogger(inner) == CorrelatedHandler(inner)

\* Faulty variant: the sampled flag is not consulted.
HandleAlwaysSampled(h, sp, record) ==
    IF IsRecording(sp) /\ IsValid(sp)
    THEN <<HandleEffect(h.handler,
              AddAttrs(AddAttrs(record,
                  <<Attr("trace_id", GoString(TraceIDString(sp.traceID))),
                    Attr("span_id", GoString(SpanIDString(sp.spanID)))>>),
                  <<Attr("trace_sampled", GoBool(TRUE))>>))>>
    ELSE <<HandleEffect(h.handler, record)>>

\* Faulty variant: the validity of the span context is not consulted.
HandleNoValidCheck(h, sp, record) ==
    IF IsRecording(sp)
    THEN LET r1 == AddAttrs(record,
                      <<Attr("trace_id", GoString(TraceIDString(sp.traceID))),
                        Attr("span_id", GoString(SpanIDString(sp.spanID)))>>)
         IN <<HandleEffect(h.handler,
                IF IsSampled(sp)
                THEN AddAttrs(r1, <<Attr("trace_sampled", GoBool(TRUE))>>)
                ELSE r1)>>
    ELSE <<HandleEffect(h.handler, record)>>

\* CorrelatedHandler.Handle: the effects of one call, i.e. the single
\* delegation to the wrapped handler with the (possibly augmented) record.
Handle(h, sp, record) ==
    LET r1 == IF IsRecording(sp) /\ IsValid(sp)
              THEN AddAttrs(record,
                      <<Attr("trace_id", GoString(TraceIDString(sp.traceID))),
                        Attr("span_id", GoString(SpanIDString(sp.spanID)))>>)
              ELSE record
        r2 == IF IsRecording(sp) /\ IsValid(sp) /\ IsSampled(sp)
              THEN AddAttrs(r1, <<Attr("trace_sampled", GoBool(TRUE))>>)
              ELSE r1
    IN <<HandleEffect(h.handler, r2)>>

\* Faulty variant: the wrapped handler's error is dropped.
HandleReturnNil(sp, result) == [ctx |-> sp, err |-> NoError]

\* `return h.handler.Handle(ctx, record)`: the context handed to the wrapped
\* handler (sp is its span) and the value returned, result being what the
\* wrapped handler's Handle returns.
HandleReturn(sp, result) == [ctx |-> sp, err |-> result]

\* slog levels, and the Enabled of the wrapped handler (slog's built-in
\* handlers): the level is at least the handler's minimum level.
LevelValue(level) ==
    IF level = "DEBUG" THEN 0 - 4
    ELSE IF level = "INFO" THEN 0
    ELSE IF level = "WARN" THEN 4
    ELSE 8
InnerEnabled(level, minLevel) == LevelValue(level) >= LevelValue(minLevel)

\* CorrelatedHandler.Enabled, minLevel being the wrapped handler's.
Enabled(level, minLevel) == InnerEnabled(level, minLevel)

\* Faulty variant: the derived inner handler is returned without being wrapped again.
WithGroupUnwrapped(h, name) == BareHandler(InnerWithGroup(h.handler, name))

WithAttrs(h, attrs) == CorrelatedHandler(InnerWithAttrs(h.handler, attrs))
WithGroup(h, name)  == CorrelatedHandler(InnerWithGroup(h.handler, name))

\* Calls through the slog.Handler interface, dispatched on the dynamic type.
HandlerHandle(h, sp, record) ==
    IF h.kind = "CorrelatedHandler"
    THEN Handle(h, sp, record)
    ELSE <<HandleEffect(h.handler, record)>>
HandlerWithAttrs(h, attrs) ==
    IF h.kind = "CorrelatedHandler"
    THEN WithAttrs(h, attrs)
    ELSE BareHandler(InnerWithAttrs(h.handler, attrs))
HandlerWithGroup(h, name) ==
    IF h.kind = "CorrelatedHandler"
    THEN WithGroup(h, name)
    ELSE BareHandler(InnerWithGroup(h.handler, name))

\* slog.Logger.Log and friends: build the record from the arguments and hand
\* it to the logger's handler.
LoggerLog(h, sp, level, msg, args) ==
    HandlerHandle(h, sp, NewRecord(level, msg, ArgsToAttrs(args)))

(***************************************************************************)
(* TelemetryClient log helpers.                                            *)
(***************************************************************************)
InfoWithTrace(h, sp, msg, args) == LoggerLog(h, sp, "INFO", msg, args)

\* Faulty variant: the record is logged before the error is recorded on the span.
LogErrorLogFirst(h, sp, err, msg, args) ==
    LoggerLog(h, sp, "ERROR", msg,
              <<GoString("error"), GoString(ErrorString(err))>> \o args)
    \o (IF IsRecording(sp) THEN <<RecordErrorEffect(err)>> ELSE <<>>)

LogError(h, sp, err, msg, args) ==
    (IF IsRecording(sp) THEN <<RecordErrorEffect(err)>> ELSE <<>>)
    \o LoggerLog(h, sp, "ERROR", msg,
                 <<GoString("error"), GoString(ErrorString(err))>> \o args)

\* time.Duration (nanoseconds) to whole milliseconds.
Milliseconds(d) == d \div 1000000

\* Faulty variant: the thresholds are exclusive.
HTTPRequestLevelExclusive(statusCode) ==
    LET l0 == "INFO"
        l1 == IF statusCode > 400 THEN "WARN" ELSE l0
        l2 == IF statusCode > 500 THEN "ERROR" ELSE l1
    IN l2

HTTPRequestLevel(statusCode) ==
    LET l0 == "INFO"
        l1 == IF statusCode >= 400 THEN "WARN" ELSE l0
        l2 == IF statusCode >= 500 THEN "ERROR" ELSE l1
    IN l2

LogHTTPRequest(h, sp, method, path, statusCode, duration, args) ==
    LET allArgs == <<GoString("http_method"), GoString(method),
                     GoString("http_path"), GoString(path),
                     GoString("http_status_code"), GoInt(statusCode),
                     GoString("duration_ms"), GoInt64(Milliseconds(duration))>>
                   \o args
    IN LoggerLog(h, sp, HTTPRequestLevel(statusCode), "HTTP request completed", allArgs)

\* attribute.KeyValue, by the constructor that built it.
KeyValue(key, ctor, s, n) == [key |-> key, ctor |-> ctor, s |-> s, n |-> n]

\* Faulty variant: the int64 case is missing, so int64 values take the default branch.
SpanAttributeNoInt64(key, v) ==
    IF v.t = "string" THEN KeyValue(key, "String", v.s, 0)
    ELSE IF v.t = "int" THEN KeyValue(key, "Int", "", v.n)
    ELSE IF v.t = "float64" THEN KeyValue(key, "Float64", "", v.n)
    ELSE IF v.t = "bool" THEN KeyValue(key, "Bool", "", v.n)
    ELSE KeyValue(key, "String", Sprint(v), 0)

\* The type switch of LogWithSpanAttributes.
SpanAttribute(key, v) ==
    IF v.t = "string" THEN KeyValue(key, "String", v.s, 0)
    ELSE IF v.t = "int" THEN KeyValue(key, "Int", "", v.n)
    ELSE IF v.t = "int64" THEN KeyValue(key, "Int64", "", v.n)
    ELSE IF v.t = "float64" THEN KeyValue(key, "Float64", "", v.n)
    ELSE IF v.t = "bool" THEN KeyValue(key, "Bool", "", v.n)
    ELSE KeyValue(key, "String", Sprint(v), 0)

RECURSIVE MapArgs(_)
MapArgs(order) ==
    IF Len(order) = 0 THEN <<>>
    ELSE <<GoString(order[1].key), order[1].value>> \o MapArgs(Tail(order))

RECURSIVE MapSpanAttrs(_)
MapSpanAttrs(order) ==
    IF Len(order) = 0 THEN <<>>
    ELSE <<SpanAttribute(order[1].key, order[1].value)>> \o MapSpanAttrs(Tail(order))

\* `order` is the mapping's entries in the order the range loop visits them.
LogWithSpanAttributes(h, sp, level, msg, order) ==
    LET args      == MapArgs(order)
        spanAttrs == MapSpanAttrs(order)
    IN (IF IsRecording(sp) THEN <<SetAttributesEffect(spanAttrs)>> ELSE <<>>)
       \o LoggerLog(h, sp, level, msg, args)

(***************************************************************************)
(* Inputs of the logging operations.                                       *)
(***************************************************************************)
Levels      == {"INFO", "WARN"}
CallerAttrs == { <<>>,
                 <<Attr("user_id", GoInt(123))>>,
                 <<Attr("trace_id", GoString("caller")), Attr("ok", GoBool(TRUE))>> }
Records     == { NewRecord(l, "Processando", as) : l \in Levels, as \in CallerAttrs }
ArgLists    == { <<>>,
                 <<GoString("bytes"), GoInt(42)>>,
                 <<GoString("operation"), GoString("create_user"),
                   GoString("extra"), GoString("data")>> }
DerivedAttrs == { <<Attr("component", GoString("api"))>> }
GroupNames  == { "req" }
StatusCodes == { -1, 0, 200, 399, 400, 401, 499, 500, 501, 599 }
Durations   == { 0, 1500000, 250000000 }
Errors      == { NewError("connection timeout"), NewError("invalid") }
MapKeys     == { "user_id", "action" }
MapValues   == { GoString("process"), GoInt(123), GoInt64(456),
                 GoFloat64(9999), GoBool(TRUE), GoInt32(3) }
\* map[string]any as a set of entries with distinct keys
AttrMaps    == { m \in SUBSET { Attr(k, v) : k \in MapKeys, v \in MapValues } :
                   \A x, y \in m : x.key = y.key => x = y }
\* the orders in which a range loop may visit the entries of m
Orders(m)   == { o \in [1..Cardinality(m) -> m] :
                   \A i, j \in 1..Cardinality(m) : o[i] = o[j] => i = j }

IdleCall ==
    [op |-> "idle", span |-> NoopSpan, handler |-> BareHandler(<<>>),
     record |-> NoRecord, level |-> "", msg |-> "", args |-> <<>>,
     err |-> NoError, statusCode |-> 0, method |-> "", path |-> "",
     duration |-> 0, attrs |-> <<>>, entries |-> {}, order |-> <<>>,
     name |-> "", ctx |-> NoopSpan, result |-> NoError, ret |-> NoError,
     minLevel |-> "", enabled |-> FALSE]

(***************************************************************************)
(* SpecLog: the logging operations, one call at a time.                    *)
(***************************************************************************)
InitLogVars ==
    /\ logger = NewCorrelatedLogger(<<>>)
    /\ call = IdleCall
    /\ effects = <<>>

\* What the wrapped handler's Handle returns.
HandleResults == { NoError, NewError("write failed") }
SlogLevels    == { "DEBUG", "INFO", "WARN", "ERROR" }

HandleCall ==
    /\ call.op = "idle"
    /\ \E sp \in Spans, record \in Records, result \in HandleResults :
         /\ call' = [IdleCall EXCEPT !.op = "Handle", !.span = sp,
                        !.handler = logger, !.record = record,
                        !.result = result,
                        !.ctx = HandleReturn(sp, result).ctx,
                        !.ret = HandleReturn(sp, result).err]
         /\ effects' = HandlerHandle(logger, sp, record)
    /\ UNCHANGED <<logger, metricVars, somaVars, restVars>>

\* slog asks the handler whether a level is enabled; nothing is delivered.
EnabledCall ==
    /\ call.op = "idle"
    /\ \E level \in SlogLevels, minLevel \in SlogLevels :
         call' = [IdleCall EXCEPT !.op = "Enabled", !.handler = logger,
                     !.level = level, !.minLevel = minLevel,
                     !.enabled = Enabled(level, minLevel)]
    /\ effects' = <<>>
    /\ UNCHANGED <<logger, metricVars, somaVars, restVars>>

WithAttrsCall ==
    /\ call.op = "idle"
    /\ Len(logger.handler) < MaxDerive
    /\ \E attrs \in DerivedAttrs :
         /\ call' = [IdleCall EXCEPT !.op = "WithAttrs", !.handler = logger,
                        !.attrs = attrs]
         /\ logger' = HandlerWithAttrs(logger, attrs)
    /\ effects' = <<>>
    /\ UNCHANGED <<metricVars, somaVars, restVars>>

WithGroupCall ==
    /\ call.op = "idle"
    /\ Len(logger.handler) < MaxDerive
    /\ \E name \in GroupNames :
         /\ call' = [IdleCall EXCEPT !.op = "WithGroup", !.handler = logger,
                        !.name = name]
         /\ logger' = HandlerWithGroup(logger, name)
    /\ effects' = <<>>
    /\ UNCHANGED <<metricVars, somaVars, restVars>>

InfoWithTraceCall ==
    /\ call.op = "idle"
    /\ \E sp \in Spans, args \in ArgLists :
         /\ call' = [IdleCall EXCEPT !.op = "InfoWithTrace", !.span = sp,
                        !.handler = logger, !.msg = "Processando", !.args = args]
         /\ effects' = InfoWithTrace(logger, sp, "Processando", args)
    /\ UNCHANGED <<logger, metricVars, somaVars, restVars>>

LogErrorCall ==
    /\ call.op = "idle"
    /\ \E sp \in Spans, err \in Errors, args \in ArgLists :
         /\ call' = [IdleCall EXCEPT !.op = "LogError", !.span = sp,
                        !.handler = logger, !.err = err,
                        !.msg = "Falha ao processar", !.args = args]
         /\ effects' = LogError(logger, sp, err, "Falha ao processar", args)
    /\ UNCHANGED <<logger, metricVars, somaVars, restVars>>

LogHTTPRequestCall ==
    /\ call.op = "idle"
    /\ \E sp \in Spans, statusCode \in StatusCodes, duration \in Durations,
          args \in ArgLists :
         /\ call' = [IdleCall EXCEPT !.op = "LogHTTPRequest", !.span = sp,
                        !.handler = logger, !.method = "GET", !.path = "/api/users",
                        !.statusCode = statusCode, !.duration = duration,
                        !.args = args]
         /\ effects' = LogHTTPRequest(logger, sp, "GET", "/api/users", statusCode,
                                      duration, args)
    /\ UNCHANGED <<logger, metricVars, somaVars, restVars>>

LogWithSpanAttributesCall ==
    /\ call.op = "idle"
    /\ \E sp \in Spans, level \in Levels, m \in AttrMaps :
         \E order \in Orders(m) :
            /\ call' = [IdleCall EXCEPT !.op = "LogWithSpanAttributes", !.span = sp,
                           !.handler = logger, !.level = level,
                           !.msg = "Operação concluída", !.entries = m,
                           !.order = order]
            /\ effects' = LogWithSpanAttributes(logger, sp, level,
                                                "Operação concluída", order)
    /\ UNCHANGED <<logger, metricVars, somaVars, restVars>>

\* The call returns to its caller.
ReturnCall ==
    /\ call.op # "idle"
    /\ call' = IdleCall
    /\ effects' = <<>>
    /\ UNCHANGED <<logger, metricVars, somaVars, restVars>>

NextLog ==
    \/ HandleCall
    \/ EnabledCall
    \/ WithAttrsCall
    \/ WithGroupCall
    \/ InfoWithTraceCall
    \/ LogErrorCall
    \/ LogHTTPRequestCall
    \/ LogWithSpanAttributesCall
    \/ ReturnCall

(***************************************************************************)
(* HTTPMetrics.                                                            *)
(*                                                                         *)
(* A counter is its aggregate per attribute set (absent = 0); a histogram  *)
(* is the bag of samples recorded per attribute set.  Add and Record are   *)
(* the instruments' own operations, each atomic.                           *)
(***************************************************************************)
Methods     == { "GET" }
Endpoints   == { "/api/users" }
StatusStrs  == { "200", "404", "500" }
ErrorTypes  == { "client_error", "server_error" }
RequestDurations == { 250000000, 1500000000 }

RequestAttrSets == [method : Methods, endpoint : Endpoints, status_code : StatusStrs]
ErrorAttrSets   == [error_type : ErrorTypes, endpoint : Endpoints]

\* time.Duration (nanoseconds) as floating-point seconds: sec + nsec/1e9.
Seconds(d) == [sec |-> d \div 1000000000, nsec |-> d % 1000000000]

\* metric.Int64Counter.Add
CounterAdd(counter, attrs, incr) == [counter EXCEPT ![attrs] = @ + incr]
\* metric.Float64Histogram.Record
HistogramRecord(hist, attrs, sample) ==
    [hist EXCEPT ![attrs] = @ (+) SetToBag({sample})]

CounterTotal(counter) ==
    LET RECURSIVE Sum(_)
        Sum(S) == IF S = {} THEN 0
                  ELSE LET x == CHOOSE x \in S : TRUE
                       IN counter[x] + Sum(S \ {x})
    IN Sum(DOMAIN counter)
HistogramCount(hist) ==
    LET RECURSIVE Sum(_)
        Sum(S) == IF S = {} THEN 0
                  ELSE LET x == CHOOSE x \in S : TRUE
                       IN BagCardinality(hist[x]) + Sum(S \ {x})
    IN Sum(DOMAIN hist)

\* NewHTTPMetrics: the three instruments, nothing recorded yet.
NewHTTPMetrics ==
    [RequestsTotal   |-> [a \in RequestAttrSets |-> 0],
     RequestDuration |-> [a \in RequestAttrSets |-> EmptyBag],
     ErrorsTotal     |-> [a \in ErrorAttrSets |-> 0]]

RequestAttrs(method, endpoint, statusCode) ==
    [method |-> method, endpoint |-> endpoint, status_code |-> statusCode]

\* Faulty variant: the counter is stored, not added to.
RecordRequestAddStore(m, method, endpoint, statusCode) ==
    [m EXCEPT !.RequestsTotal =
        [@ EXCEPT ![RequestAttrs(method, endpoint, statusCode)] = 1]]

\* RecordRequest, first statement: m.RequestsTotal.Add(ctx, 1, attrs)
RecordRequestAdd(m, method, endpoint, statusCode) ==
    [m EXCEPT !.RequestsTotal =
        CounterAdd(@, RequestAttrs(method, endpoint, statusCode), 1)]

\* RecordRequest, second statement: m.RequestDuration.Record(ctx, duration.Seconds(), attrs)
RecordRequestRecord(m, method, endpoint, statusCode, duration) ==
    [m EXCEPT !.RequestDuration =
        HistogramRecord(@, RequestAttrs(method, endpoint, statusCode),
                        Seconds(duration))]

\* Faulty variant: an error is also counted as a request.
RecordErrorAlsoRequest(m, errorType, endpoint) ==
    [m EXCEPT !.ErrorsTotal =
                 CounterAdd(@, [error_type |-> errorType, endpoint |-> endpoint], 1),
              !.RequestsTotal =
                 CounterAdd(@, RequestAttrs("GET", endpoint, "500"), 1)]

RecordError(m, errorType, endpoint) ==
    [m EXCEPT !.ErrorsTotal =
        CounterAdd(@, [error_type |-> errorType, endpoint |-> endpoint], 1)]

(***************************************************************************)
(* SpecMetrics: MaxWorkers workers, each making one RecordRequest or one   *)
(* RecordError call on the shared HTTPMetrics, interleaved at the          *)
(* instrument calls.                                                       *)
(***************************************************************************)
Workers == 1..MaxWorkers

IdleWorker ==
    [pc |-> "idle", op |-> "", method |-> "", endpoint |-> "", statusCode |-> "",
     duration |-> 0, errorType |-> ""]

InitMetricVars ==
    /\ httpMetrics = NewHTTPMetrics
    /\ workers = [w \in Workers |-> IdleWorker]

RecordRequestBegin(w) ==
    /\ workers[w].pc = "idle"
    /\ \E method \in Methods, endpoint \in Endpoints, statusCode \in StatusStrs,
          duration \in RequestDurations :
         /\ httpMetrics' = RecordRequestAdd(httpMetrics, method, endpoint, statusCode)
         /\ workers' = [workers EXCEPT ![w] =
                [pc |-> "added", op |-> "RecordRequest", method |-> method,
                 endpoint |-> endpoint, statusCode |-> statusCode,
                 duration |-> duration, errorType |-> ""]]
    /\ UNCHANGED <<logVars, somaVars, restVars>>

RecordRequestEnd(w) ==
    /\ workers[w].pc = "added"
    /\ httpMetrics' = RecordRequestRecord(httpMetrics, workers[w].method,
                           workers[w].endpoint, workers[w].statusCode,
                           workers[w].duration)
    /\ workers' = [workers EXCEPT ![w].pc = "done"]
    /\ UNCHANGED <<logVars, somaVars, restVars>>

RecordErrorCall(w) ==
    /\ workers[w].pc = "idle"
    /\ \E errorType \in ErrorTypes, endpoint \in Endpoints :
         /\ httpMetrics' = RecordError(httpMetrics, errorType, endpoint)
         /\ workers' = [workers EXCEPT ![w] =
                [IdleWorker EXCEPT !.pc = "done", !.op = "RecordError",
                                   !.errorType = errorType, !.endpoint = endpoint]]
    /\ UNCHANGED <<logVars, somaVars, restVars>>

NextMetrics ==
    \/ \E w \in Workers : RecordRequestBegin(w)
    \/ \E w \in Workers : RecordRequestEnd(w)
    \/ \E w \in Workers : RecordErrorCall(w)

(***************************************************************************)
(* The /soma handler of main.go.                                           *)
(*                                                                         *)
(* main.go holds two revisions of the service: the one with metrics        *)
(* (lines 22-127) and the one with tracing and logging only (lines         *)
(* 199-253).  `revision` says which one is running.  A request's handler   *)
(* run is the sequence of calls it makes, kept in the request's `events`.  *)
(***************************************************************************)
Revisions == { "metrics", "tracing" }

\* Query parameter values, as character sequences.
QueryValues == { <<>>, <<"3">>, <<"4", ".", "5">>, <<"x">> }

IsDigit(c)  == \E i \in 1..10 : DecDigits[i] = c
DigitVal(c) == (CHOOSE i \in 1..10 : DecDigits[i] = c) - 1

RECURSIVE DigitsValue(_)
DigitsValue(ds) ==
    IF Len(ds) = 0 THEN 0
    ELSE DigitsValue(SubSeq(ds, 1, Len(ds) - 1)) * 10 + DigitVal(ds[Len(ds)])

\* The fraction digits as millionths (digits past the sixth are dropped).
RECURSIVE FracMicros(_, _)
FracMicros(ds, unit) ==
    IF Len(ds) = 0 \/ unit = 0 THEN 0
    ELSE DigitVal(ds[1]) * unit + FracMicros(Tail(ds), unit \div 10)

\* strconv.ParseFloat(s, 64) on decimal literals without exponent:
\* [sign] digits [ "." [digits] ]  or  [sign] "." digits.  val is in millionths.
ParseFloat(str) ==
    LET signed == Len(str) > 0 /\ str[1] \in {"+", "-"}
        body   == IF signed THEN Tail(str) ELSE str
        dots   == { i \in 1..Len(body) : body[i] = "." }
        ok     == /\ Cardinality(dots) <= 1
                  /\ \A i \in 1..Len(body) : body[i] = "." \/ IsDigit(body[i])
                  /\ \E i \in 1..Len(body) : IsDigit(body[i])
        dot    == IF dots = {} THEN Len(body) + 1 ELSE CHOOSE i \in dots : TRUE
        mag    == DigitsValue(SubSeq(body, 1, dot - 1)) * 1000000
                  + FracMicros(SubSeq(body, dot + 1, Len(body)), 100000)
    IN IF ok
       THEN [err |-> FALSE, val |-> IF signed /\ str[1] = "-" THEN 0 - mag ELSE mag]
       ELSE [err |-> TRUE, val |-> 0]

\* fmt's %f verb: six digits after the decimal point.
RECURSIVE Zeros(_)
Zeros(k) == IF k <= 0 THEN "" ELSE "0" \o Zeros(k - 1)
PadMicros(n) == Zeros(6 - Len(Itoa(n))) \o Itoa(n)
FormatF(val) ==
    LET mag == IF val < 0 THEN 0 - val ELSE val
    IN (IF val < 0 THEN "-" ELSE "")
       \o Itoa(mag \div 1000000) \o "." \o PadMicros(mag % 1000000)

CalcURL(a, b) ==
    "http://localhost:8082/calc?a=" \o FormatF(a) \o "&b=" \o FormatF(b)

\* Results of client.Do: a transport failure, or a response.
Outcomes == { [err |-> TRUE,  status |-> 0,   body |-> ""],
              [err |-> FALSE, status |-> 200, body |-> "7"],
              [err |-> FALSE, status |-> 500, body |-> "internal error"] }

Ev(kind, arg) == [kind |-> kind, arg |-> arg]

IfMetrics(rev, evs) == IF rev = "metrics" THEN evs ELSE <<>>

\* Faulty variant: the trace context is injected after the call is issued.
SomaReceiveInjectLate(rev, aStr, bStr) ==
    LET a == ParseFloat(aStr)
        b == ParseFloat(bStr)
        start == <<Ev("tracer.Start", "SomaHandler")>>
                 \o IfMetrics(rev, <<Ev("requestCounter.Add", "/soma")>>)
                 \o <<Ev("strconv.ParseFloat", "a,b")>>
    IN IF a.err \/ b.err
       THEN start
            \o <<Ev("span.RecordError", "parâmetros inválidos"),
                 Ev("logWithTrace", "ERROR")>>
            \o IfMetrics(rev, <<Ev("errorCounter.Add", "invalid_parameters"),
                                Ev("requestDuration.Record", "400")>>)
            \o <<Ev("http.Error", "400"), Ev("span.End", "")>>
       ELSE start
            \o <<Ev("span.SetAttributes", "param.a,param.b"),
                 Ev("http.NewRequest", "GET " \o CalcURL(a.val, b.val))>>
            \o IfMetrics(rev, <<Ev("externalCallsCounter.Add", "calc-service")>>)
            \o <<Ev("client.Do", CalcURL(a.val, b.val)),
                 Ev("propagator.Inject", "req.Header")>>

\* The handler up to its first return or to the outbound call.
SomaReceive(rev, aStr, bStr) ==
    LET a == ParseFloat(aStr)
        b == ParseFloat(bStr)
        start == <<Ev("tracer.Start", "SomaHandler")>>
                 \o IfMetrics(rev, <<Ev("requestCounter.Add", "/soma")>>)
                 \o <<Ev("strconv.ParseFloat", "a,b")>>
    IN IF a.err \/ b.err
       THEN start
            \o <<Ev("span.RecordError", "parâmetros inválidos"),
                 Ev("logWithTrace", "ERROR")>>
            \o IfMetrics(rev, <<Ev("errorCounter.Add", "invalid_parameters"),
                                Ev("requestDuration.Record", "400")>>)
            \o <<Ev("http.Error", "400"), Ev("span.End", "")>>
       ELSE start
            \o <<Ev("span.SetAttributes", "param.a,param.b"),
                 Ev("http.NewRequest", "GET " \o CalcURL(a.val, b.val)),
                 Ev("propagator.Inject", "req.Header")>>
            \o IfMetrics(rev, <<Ev("externalCallsCounter.Add", "calc-service")>>)
            \o <<Ev("client.Do", CalcURL(a.val, b.val))>>

\* Faulty variant: the request metric carries the downstream's status.
SomaFinishStatusOfResponse(rev, outcome) ==
    IF outcome.err
    THEN <<Ev("span.RecordError", "client.Do")>>
         \o IfMetrics(rev, <<Ev("errorCounter.Add", "external_service_error"),
                             Ev("requestDuration.Record", "500")>>)
         \o <<Ev("http.Error", "500"), Ev("logWithTrace", "ERROR"),
              Ev("span.End", "")>>
    ELSE <<Ev("ioutil.ReadAll", outcome.body), Ev("logWithTrace", "INFO")>>
         \o IfMetrics(rev, <<Ev("requestDuration.Record", Itoa(outcome.status))>>)
         \o <<Ev("fmt.Fprintf", "Resultado do serviço2: " \o outcome.body),
              Ev("resp.Body.Close", ""), Ev("span.End", "")>>

\* Faulty variant: the failure path records no duration sample.
SomaFinishNoSample(rev, outcome) ==
    IF outcome.err
    THEN <<Ev("span.RecordError", "client.Do")>>
         \o IfMetrics(rev, <<Ev("errorCounter.Add", "external_service_error")>>)
         \o <<Ev("http.Error", "500"), Ev("logWithTrace", "ERROR"),
              Ev("span.End", "")>>
    ELSE <<Ev("ioutil.ReadAll", outcome.body), Ev("logWithTrace", "INFO")>>
         \o IfMetrics(rev, <<Ev("requestDuration.Record", "200")>>)
         \o <<Ev("fmt.Fprintf", "Resultado do serviço2: " \o outcome.body),
              Ev("resp.Body.Close", ""), Ev("span.End", "")>>

\* The handler from the return of client.Do to its end.
SomaFinish(rev, outcome) ==
    IF outcome.err
    THEN <<Ev("span.RecordError", "client.Do")>>
         \o IfMetrics(rev, <<Ev("errorCounter.Add", "external_service_error"),
                             Ev("requestDuration.Record", "500")>>)
         \o <<Ev("http.Error", "500"), Ev("logWithTrace", "ERROR"),
              Ev("span.End", "")>>
    ELSE <<Ev("ioutil.ReadAll", outcome.body), Ev("logWithTrace", "INFO")>>
         \o IfMetrics(rev, <<Ev("requestDuration.Record", "200")>>)
         \o <<Ev("fmt.Fprintf", "Resultado do serviço2: " \o outcome.body),
              Ev("resp.Body.Close", ""), Ev("span.End", "")>>

EventsOf(evs, kind) == SelectSeq(evs, LAMBDA e : e.kind = kind)
Count(evs, kind, arg) ==
    Len(SelectSeq(evs, LAMBDA e : e.kind = kind /\ e.arg = arg))
CountKind(evs, kind) == Len(EventsOf(evs, kind))

\* The status the client receives: http.Error's code, else 200 once the
\* body is written.
ResponseStatus(evs) ==
    IF Count(evs, "http.Error", "400") > 0 THEN 400
    ELSE IF Count(evs, "http.Error", "500") > 0 THEN 500
    ELSE IF CountKind(evs, "fmt.Fprintf") > 0 THEN 200
    ELSE 0

\* The instruments CreateMetrics returns, as running totals.
SomaErrorTypes == { "invalid_parameters", "external_service_error" }
SomaStatuses   == { "200", "400", "500" }
NewSomaCounters ==
    [requestCounter       |-> 0,
     requestDuration      |-> [st \in SomaStatuses |-> 0],
     externalCallsCounter |-> 0,
     errorCounter         |-> [et \in SomaErrorTypes |-> 0]]

\* Faulty variant: the external-call counter is left out.
ApplyCountersNoExternal(c, evs) ==
    [requestCounter       |-> c.requestCounter + CountKind(evs, "requestCounter.Add"),
     requestDuration      |-> [st \in SomaStatuses |->
                                 c.requestDuration[st]
                                 + Count(evs, "requestDuration.Record", st)],
     externalCallsCounter |-> c.externalCallsCounter,
     errorCounter         |-> [et \in SomaErrorTypes |->
                                 c.errorCounter[et] + Count(evs, "errorCounter.Add", et)]]

\* The instrument updates among the events evs, applied to the counters c.
ApplyCounters(c, evs) ==
    [requestCounter       |-> c.requestCounter + CountKind(evs, "requestCounter.Add"),
     requestDuration      |-> [st \in SomaStatuses |->
                                 c.requestDuration[st]
                                 + Count(evs, "requestDuration.Record", st)],
     externalCallsCounter |-> c.externalCallsCounter
                              + CountKind(evs, "externalCallsCounter.Add"),
     errorCounter         |-> [et \in SomaErrorTypes |->
                                 c.errorCounter[et] + Count(evs, "errorCounter.Add", et)]]

Reqs == 1..MaxReqs

\* resp is what client.Do returned, once it has.
NoOutcome == [err |-> FALSE, status |-> 0, body |-> ""]
IdleReq == [pc |-> "idle", a |-> <<>>, b |-> <<>>, events |-> <<>>, resp |-> NoOutcome]

InitSomaVars ==
    /\ reqs = [r \in Reqs |-> IdleReq]
    /\ somaCounters = NewSomaCounters
    /\ outbound = [r \in Reqs |-> <<>>]

\* A request arrives and its handler runs to the invalid-parameter return
\* or to the outbound call.
SomaRequest(r) ==
    /\ reqs[r].pc = "idle"
    /\ \E aStr \in QueryValues, bStr \in QueryValues :
         LET evs == SomaReceive(revision, aStr, bStr)
         IN /\ reqs' = [reqs EXCEPT ![r] =
                  [pc |-> IF CountKind(evs, "client.Do") > 0 THEN "calling" ELSE "done",
                   a |-> aStr, b |-> bStr, events |-> evs, resp |-> NoOutcome]]
            /\ somaCounters' = ApplyCounters(somaCounters, evs)
            /\ outbound' = [outbound EXCEPT ![r] =
                  @ \o [i \in 1..CountKind(evs, "client.Do") |->
                          EventsOf(evs, "client.Do")[i].arg]]
    /\ UNCHANGED <<revision, logVars, metricVars, restVars>>

\* client.Do returns and the handler runs to its end.
SomaDownstream(r) ==
    /\ reqs[r].pc = "calling"
    /\ \E outcome \in Outcomes :
         LET evs == SomaFinish(revision, outcome)
         IN /\ reqs' = [reqs EXCEPT ![r].pc = "done", ![r].events = @ \o evs,
                                    ![r].resp = outcome]
            /\ somaCounters' = ApplyCounters(somaCounters, evs)
    /\ UNCHANGED <<revision, outbound, logVars, metricVars, restVars>>

NextSoma ==
    \/ \E r \in Reqs : SomaRequest(r)
    \/ \E r \in Reqs : SomaDownstream(r)

(***************************************************************************)
(* telemetry.SetupWithConfig and telemetry.NewClient.                      *)
(*                                                                         *)
(* `env` is the process environment (a name is set iff it is in the        *)
(* function's domain), `providers` the global tracer and meter providers,  *)
(* and setups[i] one invocation: its position, its config, the overrides   *)
(* still to be written, the expanded file content and what it returned.    *)
(***************************************************************************)
\* os.Setenv (an empty name is rejected and the error is dropped),
\* os.Getenv (unset reads as "").
Setenv(e, key, value) == IF key = "" THEN e ELSE (key :> value) @@ e
Getenv(e, key)        == IF key \in DOMAIN e THEN e[key] ELSE ""
IsSet(e, key)         == key \in DOMAIN e

NoEnv == [n \in {} |-> ""]

\* The environment the process starts with.
InitialEnvs ==
    { NoEnv,
      "SERVICE_NAME" :> "from-env",
      "OTEL_ENDPOINT" :> "http://collector:4318",
      ("SERVICE_NAME" :> "from-env") @@ ("ENVIRONMENT" :> "dev") }

\* The config file, cut into literal text and placeholders.  A placeholder
\* is written ${name} or ${name:-def}.
Lit(text)             == [kind |-> "lit", text |-> text, name |-> "", hasDef |-> FALSE, def |-> ""]
Var(name)             == [kind |-> "var", text |-> "", name |-> name, hasDef |-> FALSE, def |-> ""]
VarDefault(name, def) == [kind |-> "var", text |-> "", name |-> name, hasDef |-> TRUE, def |-> def]

ConfigFile ==
    << Lit("service.name: "), Var("SERVICE_NAME"),
       Lit(" service.version: "), Var("SERVICE_VERSION"),
       Lit(" environment: "), Var("ENVIRONMENT"),
       Lit(" team: "), Var("TEAM"),
       Lit(" endpoint: "), VarDefault("OTEL_ENDPOINT", "http://localhost:4318"),
       Lit(" namespace: "), VarDefault("SERVICE_NAME", "my-service") >>

\* What os.Expand takes for the name of a braced placeholder: all the text
\* between the braces.
ShellName(tok) == IF tok.hasDef THEN tok.name \o ":-" \o tok.def ELSE tok.name

\* os.ExpandEnv: every placeholder is replaced by os.Getenv of its name.
ExpandEnv(content, e) ==
    [k \in 1..Len(content) |->
        IF content[k].kind = "lit" THEN content[k].text
        ELSE Getenv(e, ShellName(content[k]))]

\* telemetry.Config.
NewConfig(name, version, environment, attributes) ==
    [ConfigPath |-> "otel-config.yaml", ServiceName |-> name,
     ServiceVersion |-> version, Environment |-> environment,
     Attributes |-> attributes]

\* The configs callers pass: Setup's (the path alone), example.go's, and
\* some with a part of the overrides.
SetupConfigs ==
    { NewConfig("", "", "", NoEnv),
      NewConfig("my-awesome-service", "1.0.0", "production",
                ("TEAM" :> "backend") @@ ("REGION" :> "us-east-1")),
      NewConfig("orders", "", "", NoEnv),
      NewConfig("", "2.0.0", "", "TEAM" :> "platform"),
      NewConfig("orders", "", "staging", "SERVICE_NAME" :> "billing") }

Pair(key, value) == [key |-> key, value |-> value]

\* The os.Setenv calls for the three named fields, in the code's order.
FixedOverrides(config) ==
    (IF config.ServiceName # ""
     THEN <<Pair("SERVICE_NAME", config.ServiceName)>> ELSE <<>>)
    \o (IF config.ServiceVersion # ""
        THEN <<Pair("SERVICE_VERSION", config.ServiceVersion)>> ELSE <<>>)
    \o (IF config.Environment # ""
        THEN <<Pair("ENVIRONMENT", config.Environment)>> ELSE <<>>)

\* The os.Setenv calls of the range loop over config.Attributes, visiting
\* the keys in the order `order`.
AttributeOverrides(config, order) ==
    [k \in 1..Len(order) |-> Pair(order[k], config.Attributes[order[k]])]

\* Values returned to the caller.
NoLogger  == [handler |-> BareHandler(<<>>), format |-> "", out |-> ""]
NoScope   == [name |-> "", provider |-> 0]
NilClient == [nil |-> TRUE, shutdown |-> "nil", Tracer |-> NoScope,
              Meter |-> NoScope, Logger |-> NoLogger]

\* slog.New(NewCorrelatedLogger(slog.NewJSONHandler(os.Stdout, nil)))
NewJSONLogger ==
    [handler |-> NewCorrelatedLogger(<<>>), format |-> "json", out |-> "os.Stdout"]

\* Faulty variant: the service name is used as it is, empty or not.
NewClientNoDefault(config, shutdown, err, prov) ==
    IF err # ""
    THEN [client |-> NilClient, err |-> err]
    ELSE [client |-> [nil |-> FALSE, shutdown |-> shutdown,
                      Tracer |-> [name |-> config.ServiceName, provider |-> prov.tracer],
                      Meter  |-> [name |-> config.ServiceName, provider |-> prov.meter],
                      Logger |-> NewJSONLogger],
          err |-> ""]

\* Faulty variant: a client is built whatever SetupWithConfig returned.
NewClientDegraded(config, shutdown, err, prov) ==
    LET serviceName == IF config.ServiceName = "" THEN "unknown-service"
                       ELSE config.ServiceName
    IN [client |-> [nil |-> FALSE, shutdown |-> shutdown,
                    Tracer |-> [name |-> serviceName, provider |-> prov.tracer],
                    Meter  |-> [name |-> serviceName, provider |-> prov.meter],
                    Logger |-> NewJSONLogger],
        err |-> err]

\* NewClient, from the return of SetupWithConfig (shutdown, err) on; prov is
\* the global providers otel.Tracer and otel.Meter read.
NewClient(config, shutdown, err, prov) ==
    IF err # ""
    THEN [client |-> NilClient, err |-> err]
    ELSE LET serviceName == IF config.ServiceName = "" THEN "unknown-service"
                            ELSE config.ServiceName
         IN [client |-> [nil |-> FALSE, shutdown |-> shutdown,
                         Tracer |-> [name |-> serviceName, provider |-> prov.tracer],
                         Meter  |-> [name |-> serviceName, provider |-> prov.meter],
                         Logger |-> NewJSONLogger],
             err |-> ""]

Setups == 1..MaxSetups

SetupKinds == { "SetupWithConfig", "NewClient" }

IdleSetup ==
    [pc |-> "idle", kind |-> "", config |-> NewConfig("", "", "", NoEnv),
     todo |-> <<>>, expanded |-> <<>>, failed |-> "",
     shutdown |-> "nil", err |-> "",
     client |-> NilClient, clientErr |-> ""]

\* SetupWithConfig returns (shutdown, err); when it was called by NewClient,
\* NewClient runs on to its own return.
Return(s, shutdown, err, prov) ==
    LET c == NewClient(s.config, shutdown, err, prov)
    IN [s EXCEPT !.pc = "returned", !.shutdown = shutdown, !.err = err,
                 !.client = IF s.kind = "NewClient" THEN c.client ELSE NilClient,
                 !.clientErr = IF s.kind = "NewClient" THEN c.err ELSE ""]

InitSetupVars ==
    /\ env \in InitialEnvs
    /\ setups = [i \in Setups |-> IdleSetup]
    /\ providers = [tracer |-> 0, meter |-> 0]

\* No invocation in progress, an empty environment, and prov the SDK
\* behind the global providers.
SetupVarsIdle(prov) ==
    /\ env = NoEnv
    /\ setups = [i \in Setups |-> IdleSetup]
    /\ providers = [tracer |-> prov, meter |-> prov]

\* The call (of one of `kinds`, with one of `configs`), and os.ReadFile.
SetupCall(i, kinds, configs) ==
    /\ setups[i].pc = "idle"
    /\ \E kind \in kinds, config \in configs, readErr \in BOOLEAN :
       \E order \in Orders(DOMAIN config.Attributes) :
         LET s == [IdleSetup EXCEPT !.kind = kind, !.config = config]
         IN setups' = [setups EXCEPT ![i] =
               IF readErr
               THEN Return([s EXCEPT !.failed = "read"], "nil",
                           "failed to read config file", providers)
               ELSE [s EXCEPT !.pc = "setenv",
                              !.todo = FixedOverrides(config)
                                       \o AttributeOverrides(config, order)]]
    /\ UNCHANGED <<env, providers>>

SetupReadFile(i) == SetupCall(i, SetupKinds, SetupConfigs)

\* The configs of the invocations of SetupWithConfig that run concurrently:
\* they override SERVICE_NAME with different values.
ConcurrentConfigs ==
    { NewConfig("orders", "", "", NoEnv),
      NewConfig("billing", "2.0.0", "", "TEAM" :> "platform") }

SetupReadFileConcurrent(i) ==
    SetupCall(i, { "SetupWithConfig" }, ConcurrentConfigs)

\* The next os.Setenv.
SetupSetenv(i) ==
    /\ setups[i].pc = "setenv"
    /\ setups[i].todo # <<>>
    /\ env' = Setenv(env, Head(setups[i].todo).key, Head(setups[i].todo).value)
    /\ setups' = [setups EXCEPT ![i].todo = Tail(@)]
    /\ UNCHANGED providers

\* Faulty variant: the content is expanded before the overrides are written.
SetupExpandEarly(i) ==
    /\ setups[i].pc = "setenv"
    /\ setups' = [setups EXCEPT ![i].pc = "parse",
                                ![i].expanded = ExpandEnv(ConfigFile, env)]
    /\ UNCHANGED <<env, providers>>

\* Faulty variant: the content is expanded with every variable unset.
SetupExpandUnset(i) ==
    /\ setups[i].pc = "setenv"
    /\ setups[i].todo = <<>>
    /\ setups' = [setups EXCEPT ![i].pc = "parse",
                                ![i].expanded = ExpandEnv(ConfigFile, NoEnv)]
    /\ UNCHANGED <<env, providers>>

\* os.ExpandEnv on the file content, once every override is written.
SetupExpand(i) ==
    /\ setups[i].pc = "setenv"
    /\ setups[i].todo = <<>>
    /\ setups' = [setups EXCEPT ![i].pc = "parse",
                                ![i].expanded = ExpandEnv(ConfigFile, env)]
    /\ UNCHANGED <<env, providers>>

\* otelconf.ParseYAML.
SetupParseYAML(i) ==
    /\ setups[i].pc = "parse"
    /\ \E parseErr \in BOOLEAN :
         setups' = [setups EXCEPT ![i] =
            IF parseErr
            THEN Return([@ EXCEPT !.failed = "parse"], "nil",
                        "failed to parse YAML config", providers)
            ELSE [@ EXCEPT !.pc = "sdk"]]
    /\ UNCHANGED <<env, providers>>

\* Faulty variant: the global providers are set before the error of
\* otelconf.NewSDK is looked at.
SetupNewSDKProvidersFirst(i) ==
    /\ setups[i].pc = "sdk"
    /\ providers' = [tracer |-> i, meter |-> i]
    /\ \E sdkErr \in BOOLEAN :
         setups' = [setups EXCEPT ![i] =
            IF sdkErr
            THEN Return([@ EXCEPT !.failed = "sdk"], "nil",
                        "failed to create OpenTelemetry SDK", providers')
            ELSE Return(@, "sdk.Shutdown", "", providers')]
    /\ UNCHANGED env

\* otelconf.NewSDK, then the global providers and the return.
SetupNewSDK(i) ==
    /\ setups[i].pc = "sdk"
    /\ \E sdkErr \in BOOLEAN :
         IF sdkErr
         THEN /\ setups' = [setups EXCEPT ![i] =
                    Return([@ EXCEPT !.failed = "sdk"], "nil",
                           "failed to create OpenTelemetry SDK", providers)]
              /\ UNCHANGED providers
         ELSE /\ providers' = [tracer |-> i, meter |-> i]
              /\ setups' = [setups EXCEPT ![i] =
                    Return(@, "sdk.Shutdown", "", providers')]
    /\ UNCHANGED env

\* The caller has taken the result; the invocation is over.
SetupDone(i) ==
    /\ setups[i].pc = "returned"
    /\ setups' = [setups EXCEPT ![i] = IdleSetup]
    /\ UNCHANGED <<env, providers>>

\* Invocations one after the other, as in main and in ExampleUsage.
NextSetup ==
    \/ \E i \in Setups :
          /\ \A j \in Setups \ {i} : setups[j].pc = "idle"
          /\ SetupReadFile(i)
          /\ UNCHANGED <<logVars, metricVars, somaVars, proc, ex, mwVars>>
    \/ \E i \in Setups : SetupSetenv(i) /\ UNCHANGED <<logVars, metricVars, somaVars, proc, ex, mwVars>>
    \/ \E i \in Setups : SetupExpand(i) /\ UNCHANGED <<logVars, metricVars, somaVars, proc, ex, mwVars>>
    \/ \E i \in Setups : SetupParseYAML(i) /\ UNCHANGED <<logVars, metricVars, somaVars, proc, ex, mwVars>>
    \/ \E i \in Setups : SetupNewSDK(i) /\ UNCHANGED <<logVars, metricVars, somaVars, proc, ex, mwVars>>
    \/ \E i \in Setups : SetupDone(i) /\ UNCHANGED <<logVars, metricVars, somaVars, proc, ex, mwVars>>

\* Invocations running concurrently, one goroutine each and one invocation
\* per goroutine, interleaved at their calls on the environment and the SDK.
NextSetupConcurrent ==
    \/ \E i \in Setups : SetupReadFileConcurrent(i) /\ UNCHANGED <<logVars, metricVars, somaVars, proc, ex, mwVars>>
    \/ \E i \in Setups : SetupSetenv(i) /\ UNCHANGED <<logVars, metricVars, somaVars, proc, ex, mwVars>>
    \/ \E i \in Setups : SetupExpand(i) /\ UNCHANGED <<logVars, metricVars, somaVars, proc, ex, mwVars>>
    \/ \E i \in Setups : SetupParseYAML(i) /\ UNCHANGED <<logVars, metricVars, somaVars, proc, ex, mwVars>>
    \/ \E i \in Setups : SetupNewSDK(i) /\ UNCHANGED <<logVars, metricVars, somaVars, proc, ex, mwVars>>

(***************************************************************************)
(* TelemetryClient.NewHTTPMetrics (instrument by instrument) and           *)
(* TelemetryClient.HTTPMiddleware with its responseWriter.                 *)
(*                                                                         *)
(* `mk` is the one call of NewHTTPMetrics, mw[r] one request passing       *)
(* through the middleware, and mwMetrics the recorder the middleware       *)
(* records into.                                                           *)
(***************************************************************************)
InstrumentNames ==
    << "http_requests_total", "http_request_duration_seconds", "http_errors_total" >>
InstrumentErrors ==
    << "failed to create requests counter", "failed to create duration histogram",
       "failed to create errors counter" >>

IdleMk == [pc |-> "idle", created |-> <<>>, nil |-> TRUE, err |-> ""]

\* Faulty variant: a failed creation is noted and the next instrument is
\* created all the same.
CreateInstrumentKeepGoing(m, ok) ==
    LET k       == Len(m.created) + 1
        created == Append(m.created, InstrumentNames[k])
    IN IF k = Len(InstrumentNames)
       THEN [pc |-> "returned", created |-> created,
             nil |-> ~ok \/ m.err # "",
             err |-> IF ok THEN m.err ELSE InstrumentErrors[k]]
       ELSE [m EXCEPT !.pc = "creating", !.created = created,
                      !.err = IF ok THEN m.err ELSE InstrumentErrors[k]]

\* The next statement of NewHTTPMetrics: create the next instrument on the
\* meter (ok says whether the meter created it); return (nil, err) when it
\* failed, and the recorder after the third.
CreateInstrument(m, ok) ==
    LET k == Len(m.created) + 1
    IN IF ~ok
       THEN [m EXCEPT !.pc = "returned", !.nil = TRUE, !.err = InstrumentErrors[k]]
       ELSE IF k = Len(InstrumentNames)
       THEN [pc |-> "returned", created |-> Append(m.created, InstrumentNames[k]),
             nil |-> FALSE, err |-> ""]
       ELSE [m EXCEPT !.pc = "creating",
                      !.created = Append(m.created, InstrumentNames[k])]

\* Requests and handler behaviours.
MwMethods   == { "GET", "POST" }
MwPaths     == { "/api/users" }
MwCodes     == { 200, 399, 400, 499, 500 }
MwDurations == { 250000000 }

MwRequestAttrSets ==
    [method : MwMethods, endpoint : MwPaths,
     status_code : { Itoa(code) : code \in MwCodes }]
MwErrorAttrSets == [error_type : ErrorTypes, endpoint : MwPaths]

\* The recorder NewHTTPMetrics returns, nothing recorded yet.
NewMwMetrics ==
    [RequestsTotal   |-> [a \in MwRequestAttrSets |-> 0],
     RequestDuration |-> [a \in MwRequestAttrSets |-> EmptyBag],
     ErrorsTotal     |-> [a \in MwErrorAttrSets |-> 0]]

\* A call the middleware makes once the wrapped handler has returned.
MwCall(op, method, endpoint, statusCode, errorType) ==
    [op |-> op, method |-> method, endpoint |-> endpoint,
     statusCode |-> statusCode, errorType |-> errorType]

\* Faulty variant: the thresholds are exclusive.
HTTPMiddlewareExclusive(method, path, code) ==
    <<MwCall("RecordRequest", method, path, Itoa(code), "")>>
    \o (IF code > 400
        THEN <<MwCall("RecordError", "", path, "",
                      IF code > 500 THEN "server_error" ELSE "client_error")>>
        ELSE <<>>)
    \o <<MwCall("span.SetAttributes", "", "", Itoa(code), "")>>
    \o (IF code > 400 THEN <<MwCall("span.RecordError", "", "", "", "")>> ELSE <<>>)

\* HTTPMiddleware from the return of next.ServeHTTP on; code is
\* wrapped.statusCode.
HTTPMiddleware(method, path, code) ==
    <<MwCall("RecordRequest", method, path, Itoa(code), "")>>
    \o (IF code >= 400
        THEN <<MwCall("RecordError", "", path, "",
                      IF code >= 500 THEN "server_error" ELSE "client_error")>>
        ELSE <<>>)
    \o <<MwCall("span.SetAttributes", "", "", Itoa(code), "")>>
    \o (IF code >= 400 THEN <<MwCall("span.RecordError", "", "", "", "")>> ELSE <<>>)

\* The calls on the recorder, applied to it.
RECURSIVE ApplyMwCalls(_, _, _)
ApplyMwCalls(m, calls, duration) ==
    IF calls = <<>> THEN m
    ELSE LET c == Head(calls)
             n == IF c.op = "RecordRequest"
                  THEN RecordRequestRecord(
                          RecordRequestAdd(m, c.method, c.endpoint, c.statusCode),
                          c.method, c.endpoint, c.statusCode, duration)
                  ELSE IF c.op = "RecordError"
                  THEN RecordError(m, c.errorType, c.endpoint)
                  ELSE m
         IN ApplyMwCalls(n, Tail(calls), duration)

MwReqs == 1..MaxMwReqs

\* statusCode is wrapped.statusCode; sent is the status the underlying
\* ResponseWriter has sent (0 = no header sent yet); writes counts the
\* handler's calls on the writer and body those of them that are Write.
IdleMw ==
    [pc |-> "idle", method |-> "", path |-> "", statusCode |-> 0, sent |-> 0,
     writes |-> 0, body |-> 0, calls |-> <<>>]

InitMwVars ==
    /\ mk = IdleMk
    /\ mw = [r \in MwReqs |-> IdleMw]
    /\ mwMetrics = NewMwMetrics

\* client.NewHTTPMetrics(): one instrument creation per step.
NewHTTPMetricsStep ==
    /\ mk.pc \in { "idle", "creating" }
    /\ \E ok \in BOOLEAN : mk' = CreateInstrument(mk, ok)
    /\ UNCHANGED <<mw, mwMetrics>>

\* A request enters the middleware: the span is started and the writer is
\* wrapped with statusCode 200.
MwEnter(r) ==
    /\ mk.pc = "returned" /\ ~mk.nil
    /\ mw[r].pc = "idle"
    /\ \E method \in MwMethods, path \in MwPaths :
         mw' = [mw EXCEPT ![r] =
                  [IdleMw EXCEPT !.pc = "handler", !.method = method,
                                 !.path = path, !.statusCode = 200]]
    /\ UNCHANGED <<mk, mwMetrics>>

\* The wrapped handler calls WriteHeader(code): responseWriter.WriteHeader
\* stores the code and forwards it; the underlying writer sends the first
\* header only.
MwWriteHeader(r) ==
    /\ mw[r].pc = "handler"
    /\ mw[r].writes < MaxWrites
    /\ \E code \in MwCodes :
         mw' = [mw EXCEPT ![r].statusCode = code,
                          ![r].sent = IF @ = 0 THEN code ELSE @,
                          ![r].writes = @ + 1]
    /\ UNCHANGED <<mk, mwMetrics>>

\* The wrapped handler calls Write: the embedded ResponseWriter's own Write,
\* which sends status 200 when no header was sent.
MwWrite(r) ==
    /\ mw[r].pc = "handler"
    /\ mw[r].writes < MaxWrites
    /\ mw' = [mw EXCEPT ![r].sent = IF @ = 0 THEN 200 ELSE @,
                        ![r].writes = @ + 1, ![r].body = @ + 1]
    /\ UNCHANGED <<mk, mwMetrics>>

\* The wrapped handler returns and the middleware records.
MwFinish(r) ==
    /\ mw[r].pc = "handler"
    /\ \E duration \in MwDurations :
         LET calls == HTTPMiddleware(mw[r].method, mw[r].path, mw[r].statusCode)
         IN /\ mw' = [mw EXCEPT ![r].pc = "done", ![r].calls = calls,
                                ![r].sent = IF @ = 0 THEN 200 ELSE @]
            /\ mwMetrics' = ApplyMwCalls(mwMetrics, calls, duration)
    /\ UNCHANGED mk

NextMiddleware ==
    \/ NewHTTPMetricsStep /\ UNCHANGED <<logVars, metricVars, somaVars, proc, ex, setupVars>>
    \/ \E r \in MwReqs : MwEnter(r) /\ UNCHANGED <<logVars, metricVars, somaVars, proc, ex, setupVars>>
    \/ \E r \in MwReqs : MwWriteHeader(r) /\ UNCHANGED <<logVars, metricVars, somaVars, proc, ex, setupVars>>
    \/ \E r \in MwReqs : MwWrite(r) /\ UNCHANGED <<logVars, metricVars, somaVars, proc, ex, setupVars>>
    \/ \E r \in MwReqs : MwFinish(r) /\ UNCHANGED <<logVars, metricVars, somaVars, proc, ex, setupVars>>

(***************************************************************************)
(* main of the demo service: telemetry setup, the deferred shutdown, the   *)
(* HTTP server, and the ways the process ends.                             *)
(***************************************************************************)
\* main has just been entered.
StartProc ==
    [pc |-> "start", setupOk |-> FALSE, deferred |-> <<>>,
     shutdownCalls |-> 0, exit |-> 0]

\* main is inside http.ListenAndServe, the deferred shutdown pending.
ServingProc ==
    [pc |-> "serving", setupOk |-> TRUE, deferred |-> <<"shutdown">>,
     shutdownCalls |-> 0, exit |-> 0]

\* os.Exit: the process ends at once; deferred functions are not run.
OsExit(p, code) == [p EXCEPT !.pc = "exited", !.exit = code]

\* log.Fatal and log.Fatalf: print, then os.Exit(1).
LogFatal(p) == OsExit(p, 1)

\* shutdown, err := telemetry.Setup(...); log.Fatalf on error; defer shutdown(ctx).
MainSetup ==
    /\ proc.pc = "start"
    /\ \E err \in BOOLEAN :
         proc' = IF err THEN LogFatal(proc)
                 ELSE [proc EXCEPT !.pc = "setup", !.setupOk = TRUE,
                                   !.deferred = <<"shutdown">> \o @]
    /\ UNCHANGED <<logVars, metricVars, somaVars, ex, setupVars, mwVars>>

\* CreateMetrics (revision with metrics): log.Fatalf when an instrument
\* cannot be created.  Then the handler is registered and main enters
\* http.ListenAndServe.
MainListen ==
    /\ proc.pc = "setup"
    /\ \E err \in BOOLEAN :
         proc' = IF err /\ revision = "metrics" THEN LogFatal(proc)
                 ELSE [proc EXCEPT !.pc = "serving"]
    /\ UNCHANGED <<logVars, metricVars, somaVars, ex, setupVars, mwVars>>

\* The server hands requests to the /soma handler.
MainServe ==
    /\ proc.pc = "serving"
    /\ NextSoma

\* http.ListenAndServe returns (its error is never nil) and log.Fatal ends
\* the process.
MainListenAndServeReturns ==
    /\ proc.pc = "serving"
    /\ proc' = LogFatal(proc)
    /\ UNCHANGED <<logVars, metricVars, somaVars, ex, setupVars, mwVars>>

NextMain ==
    \/ MainSetup
    \/ MainListen
    \/ MainServe
    \/ MainListenAndServeReturns

(***************************************************************************)
(* ExampleUsage (example.go) and the /api/users handler it registers on    *)
(* http.DefaultServeMux.  Setup and NewClient run as invocations 1 and 2   *)
(* of SetupWithConfig.                                                     *)
(***************************************************************************)
ExReqs == 1..MaxExReqs

ExampleConfig ==
    NewConfig("my-awesome-service", "1.0.0", "production",
              ("TEAM" :> "backend") @@ ("REGION" :> "us-east-1"))

\* shutdowns counts the calls of client.Shutdown and sdkShutdowns those of
\* the shutdown function Setup returned; ops lists the operations made on
\* the client, each with who made it and the value of shutdowns at the time.
StartEx ==
    [pc |-> "start", deferred |-> <<>>, client |-> NilClient,
     shutdowns |-> 0, sdkShutdowns |-> 0, registered |-> FALSE, exit |-> 0,
     ops |-> <<>>, reqs |-> [r \in ExReqs |-> [pc |-> "idle", method |-> ""]]]

ClientOp(e, by, op) ==
    [e EXCEPT !.ops = Append(@, [by |-> by, op |-> op, shutdowns |-> e.shutdowns])]

\* shutdown, err := Setup(ctx, "otel-config.yaml")
ExSetup ==
    /\ ex.pc = "start"
    /\ SetupCall(1, { "SetupWithConfig" }, { NewConfig("", "", "", NoEnv) })
    /\ ex' = [ex EXCEPT !.pc = "Setup"]

\* log.Fatal(err) on error; defer shutdown(ctx).
ExSetupReturns ==
    /\ ex.pc = "Setup" /\ setups[1].pc = "returned"
    /\ ex' = IF setups[1].err # "" THEN LogFatal(ex)
             ELSE [ex EXCEPT !.pc = "setup", !.deferred = <<"shutdown">> \o @]
    /\ UNCHANGED setupVars

\* client, err := NewClient(ctx, Config{...})
ExNewClient ==
    /\ ex.pc = "setup"
    /\ SetupCall(2, { "NewClient" }, { ExampleConfig })
    /\ ex' = [ex EXCEPT !.pc = "NewClient"]

\* log.Fatal(err) on error; defer client.Shutdown(ctx).
ExNewClientReturns ==
    /\ ex.pc = "NewClient" /\ setups[2].pc = "returned"
    /\ ex' = IF setups[2].clientErr # "" THEN LogFatal(ex)
             ELSE [ex EXCEPT !.pc = "client", !.client = setups[2].client,
                             !.deferred = <<"client.Shutdown">> \o @]
    /\ UNCHANGED setupVars

\* client.RegisterRuntimeMetrics(): up to two observable gauges created on
\* client.Meter; an error is printed and ExampleUsage goes on.
ExRegisterRuntimeMetrics ==
    /\ ex.pc = "client"
    /\ \E gauges \in 1..2 :
         ex' = [ex EXCEPT !.pc = "runtime",
                   !.ops = @ \o [k \in 1..gauges |->
                                  [by |-> "ExampleUsage",
                                   op |-> "Meter.Int64ObservableGauge",
                                   shutdowns |-> ex.shutdowns]]]

\* httpMetrics, err := client.NewHTTPMetrics(), an instrument at a time;
\* log.Fatal(err) on error.
ExNewHTTPMetrics ==
    /\ ex.pc = "runtime"
    /\ NewHTTPMetricsStep
    /\ ex' = LET e == ClientOp(ex, "ExampleUsage", "Meter.create")
             IN IF mk'.pc # "returned" THEN e
                ELSE IF mk'.nil THEN LogFatal(e)
                ELSE [e EXCEPT !.pc = "metrics"]

\* http.HandleFunc("/api/users", ...): the handler, which holds client and
\* httpMetrics, is registered on http.DefaultServeMux.
ExHandleFunc ==
    /\ ex.pc = "metrics"
    /\ ex' = [ex EXCEPT !.pc = "returning", !.registered = TRUE]

\* ExampleUsage returns: the deferred calls run, last deferred first.
ExDeferred ==
    /\ ex.pc = "returning"
    /\ ex' = IF ex.deferred = <<>> THEN [ex EXCEPT !.pc = "returned"]
             ELSE IF Head(ex.deferred) = "client.Shutdown"
             THEN [ex EXCEPT !.deferred = Tail(@), !.shutdowns = @ + 1]
             ELSE [ex EXCEPT !.deferred = Tail(@), !.sdkShutdowns = @ + 1]

\* A server on http.DefaultServeMux (main's http.ListenAndServe(":8085",
\* nil) is one) hands a request to the handler: client.Tracer.Start, and in
\* processUsers client.Tracer.Start again.
ExHandler(r) ==
    /\ ex.registered /\ ex.pc # "exited"
    /\ ex.reqs[r].pc = "idle"
    /\ \E method \in MwMethods :
         ex' = [ClientOp(ClientOp(ex, "handler", "Tracer.Start GetUsers"),
                         "handler", "Tracer.Start DatabaseQuery")
                   EXCEPT !.reqs[r] = [pc |-> "processed", method |-> method]]

\* The handler goes on: httpMetrics.RecordRequest with status "200", then
\* the response.  Whether the SDK still aggregates a measurement made after
\* its shutdown is left open.
ExHandlerRecord(r) ==
    /\ ex.reqs[r].pc = "processed" /\ ex.pc # "exited"
    /\ ex' = [ClientOp(ex, "handler", "httpMetrics.RecordRequest")
                 EXCEPT !.reqs[r].pc = "done"]
    /\ \E duration \in MwDurations, kept \in BOOLEAN :
         /\ (ex.shutdowns = 0 => kept)
         /\ mwMetrics' =
               IF kept
               THEN RecordRequestRecord(
                       RecordRequestAdd(mwMetrics, ex.reqs[r].method, "/api/users", "200"),
                       ex.reqs[r].method, "/api/users", "200", duration)
               ELSE mwMetrics

NextExample ==
    \/ ExSetup /\ UNCHANGED <<logVars, metricVars, somaVars, proc, mwVars>>
    \/ ExSetupReturns /\ UNCHANGED <<logVars, metricVars, somaVars, proc, mwVars>>
    \/ ExNewClient /\ UNCHANGED <<logVars, metricVars, somaVars, proc, mwVars>>
    \/ ExNewClientReturns /\ UNCHANGED <<logVars, metricVars, somaVars, proc, mwVars>>
    \/ \E i \in Setups : SetupSetenv(i) /\ UNCHANGED <<logVars, metricVars, somaVars, proc, ex, mwVars>>
    \/ \E i \in Setups : SetupExpand(i) /\ UNCHANGED <<logVars, metricVars, somaVars, proc, ex, mwVars>>
    \/ \E i \in Setups : SetupParseYAML(i) /\ UNCHANGED <<logVars, metricVars, somaVars, proc, ex, mwVars>>
    \/ \E i \in Setups : SetupNewSDK(i) /\ UNCHANGED <<logVars, metricVars, somaVars, proc, ex, mwVars>>
    \/ ExRegisterRuntimeMetrics /\ UNCHANGED <<logVars, metricVars, somaVars, proc, setupVars, mwVars>>
    \/ ExNewHTTPMetrics /\ UNCHANGED <<logVars, metricVars, somaVars, proc, setupVars>>
    \/ ExHandleFunc /\ UNCHANGED <<logVars, metricVars, somaVars, proc, setupVars, mwVars>>
    \/ ExDeferred /\ UNCHANGED <<logVars, metricVars, somaVars, proc, setupVars, mwVars>>
    \/ \E r \in ExReqs : ExHandler(r) /\ UNCHANGED <<logVars, metricVars, somaVars, proc, setupVars, mwVars>>
    \/ \E r \in ExReqs : ExHandlerRecord(r) /\ UNCHANGED <<logVars, metricVars, somaVars, proc, setupVars, mk, mw>>

\* The variables of main, when a subsystem is looked at on its own: the
\* service is up and serving.
InitRestVars == proc = ServingProc /\ SetupVarsIdle(1) /\ InitMwVars /\ ex = StartEx

(***************************************************************************)
(* Specifications.                                                         *)
(***************************************************************************)
InitLog     == InitLogVars /\ InitMetricVars /\ InitSomaVars /\ InitRestVars
               /\ revision = "metrics"
InitMetrics == InitLogVars /\ InitMetricVars /\ InitSomaVars /\ InitRestVars
               /\ revision = "metrics"
InitSoma    == InitLogVars /\ InitMetricVars /\ InitSomaVars /\ InitRestVars
               /\ revision \in Revisions

\* The whole process, from the entry of main.
InitMain    == InitLogVars /\ InitMetricVars /\ InitSomaVars /\ SetupVarsIdle(0)
               /\ InitMwVars /\ ex = StartEx
               /\ revision \in Revisions /\ proc = StartProc
SpecMain    == InitMain /\ [][NextMain]_vars

\* SetupWithConfig and NewClient, called one after the other.
InitSetup   == InitLogVars /\ InitMetricVars /\ InitSomaVars /\ InitSetupVars
               /\ InitMwVars /\ ex = StartEx
               /\ revision = "metrics" /\ proc = StartProc
SpecSetup   == InitSetup /\ [][NextSetup]_vars

\* SetupWithConfig and NewClient, called concurrently.
InitSetupConcurrent ==
    /\ InitLogVars /\ InitMetricVars /\ InitSomaVars /\ revision = "metrics"
    /\ proc = StartProc /\ SetupVarsIdle(0) /\ InitMwVars /\ ex = StartEx

SpecSetupConcurrent == InitSetupConcurrent /\ [][NextSetupConcurrent]_vars

\* ExampleUsage, and requests to the handler it registers.
InitExample == InitSetupConcurrent
SpecExample == InitExample /\ [][NextExample]_vars

\* NewHTTPMetrics, then requests through HTTPMiddleware.
InitMiddleware == InitLogVars /\ InitMetricVars /\ InitSomaVars /\ InitRestVars
                  /\ revision = "metrics"
SpecMiddleware == InitMiddleware /\ [][NextMiddleware]_vars

SpecLog     == InitLog /\ [][NextLog]_vars
SpecMetrics == InitMetrics /\ [][NextMetrics]_vars
SpecSoma    == InitSoma /\ [][NextSoma]_vars

\* The revision with metrics (main.go lines 22-127) alone.
InitSomaMetrics == InitLogVars /\ InitMetricVars /\ InitSomaVars /\ InitRestVars
                   /\ revision = "metrics"
SpecSomaMetrics == InitSomaMetrics /\ [][NextSoma]_vars

(***************************************************************************)
(* Properties of the correlated handler and the log helpers (SpecLog).     *)
(***************************************************************************)
Correlated(sp) == IsRecording(sp) /\ IsValid(sp)

HasKey(record, key) == \E i \in 1..Len(record.attrs) : record.attrs[i].key = key

\* The correlation fields published for span sp.
TraceFields(sp) ==
    <<Attr("trace_id", GoString(TraceIDString(sp.traceID))),
      Attr("span_id", GoString(SpanIDString(sp.spanID)))>>
SampledField == <<Attr("trace_sampled", GoBool(TRUE))>>

\* The attributes `out` carries beyond the first n.
Beyond(out, n) == SubSeq(out.attrs, n + 1, Len(out.attrs))

\* C1: a Handle call under a recording span with valid identifiers delivers
\* the caller's record with exactly trace_id and span_id appended, and
\* trace_sampled=true after them if and only if the span is sampled.
C1_HandleAddsCorrelation ==
    (call.op = "Handle" /\ Correlated(call.span)) =>
        /\ Len(effects) = 1
        /\ effects[1].kind = "handler.Handle"
        /\ LET in  == call.record
               out == effects[1].record
               n   == Len(in.attrs)
           IN /\ out.level = in.level
              /\ out.msg = in.msg
              /\ Len(out.attrs) >= n
              /\ SubSeq(out.attrs, 1, n) = in.attrs
              /\ IF IsSampled(call.span)
                 THEN Beyond(out, n) = TraceFields(call.span) \o SampledField
                 ELSE Beyond(out, n) = TraceFields(call.span)

C1_Witness ==
    /\ call.op = "Handle"
    /\ Correlated(call.span)
    /\ IsSampled(call.span)
    /\ Len(call.record.attrs) = 2
    /\ Len(effects) = 1
    /\ Len(effects[1].record.attrs) = 5

\* C25: every CorrelatedHandler.Handle call invokes the wrapped handler's
\* Handle exactly once, with the context it received, and returns what the
\* wrapped handler returned (an error included), whether or not the record
\* was augmented; it does nothing to the span; Enabled returns what the
\* wrapped handler's Enabled returns.
C25_HandleDelegatesOnce ==
    /\ (call.op = "Handle" /\ call.handler.kind = "CorrelatedHandler") =>
          /\ Len(effects) = 1
          /\ effects[1].kind = "handler.Handle"
          /\ effects[1].handler = call.handler.handler
          /\ call.ctx = call.span
          /\ call.ret = call.result
          /\ SpanErrors(effects) = <<>> /\ SpanSets(effects) = <<>>
    /\ call.op = "Enabled" =>
          /\ call.enabled = InnerEnabled(call.level, call.minLevel)
          /\ effects = <<>>

\* The wrapped handler fails on a record that was augmented.
C25_Witness ==
    /\ call.op = "Handle"
    /\ IsRecording(call.span) /\ IsValid(call.span)
    /\ Len(effects[1].record.attrs) > Len(call.record.attrs)
    /\ call.result = NewError("write failed")
    /\ call.ret = NewError("write failed")

\* C2: a Handle call whose context has no span, or a span with invalid
\* identifiers, delivers the record it received, unchanged.
C2_HandlePassThrough ==
    (call.op = "Handle" /\ ~IsValid(call.span)) =>
        effects = <<HandleEffect(call.handler.handler, call.record)>>

C2_Witness ==
    /\ call.op = "Handle"
    /\ IsRecording(call.span)
    /\ IsSampled(call.span)
    /\ ~IsValid(call.span)
    /\ Len(call.record.attrs) = 2
    /\ Len(effects) = 1
    /\ effects[1].record = call.record

EmitOps == { "Handle", "InfoWithTrace", "LogError", "LogHTTPRequest",
             "LogWithSpanAttributes" }

\* C3: every record emitted through the correlated handler under a span
\* with valid trace and span identifiers carries trace_id and span_id.
C3_ValidSpanIsCorrelated ==
    (call.op \in EmitOps /\ call.handler.kind = "CorrelatedHandler"
        /\ IsValid(call.span)) =>
        \A i \in 1..Len(effects) :
            effects[i].kind = "handler.Handle" =>
                \E j \in 1..Len(effects[i].record.attrs) - 1 :
                    /\ effects[i].record.attrs[j] = TraceFields(call.span)[1]
                    /\ effects[i].record.attrs[j + 1] = TraceFields(call.span)[2]

\* The record a call hands to the logger's handler.
InputRecord(c) ==
    IF c.op = "Handle" THEN c.record
    ELSE NewRecord("INFO", c.msg, ArgsToAttrs(c.args))

\* C4: every handler derived by WithAttrs/WithGroup is a CorrelatedHandler
\* around the inner handler derived the same way, and a record handled by a
\* descendant reaches that inner handler with the correlation fields under
\* the same conditions as at the root.
C4_DerivedHandlersCorrelate ==
    /\ logger.kind = "CorrelatedHandler"
    /\ call.op = "WithAttrs" =>
          logger = CorrelatedHandler(InnerWithAttrs(call.handler.handler, call.attrs))
    /\ call.op = "WithGroup" =>
          logger = CorrelatedHandler(InnerWithGroup(call.handler.handler, call.name))
    /\ (call.op \in {"Handle", "InfoWithTrace"} /\ Len(call.handler.handler) > 0) =>
          /\ Len(effects) = 1
          /\ effects[1].kind = "handler.Handle"
          /\ effects[1].handler = call.handler.handler
          /\ LET in  == InputRecord(call)
                 out == effects[1].record
             IN Beyond(out, Len(in.attrs)) =
                   (IF Correlated(call.span) THEN TraceFields(call.span) ELSE <<>>)
                   \o (IF Correlated(call.span) /\ IsSampled(call.span)
                       THEN SampledField ELSE <<>>)

C4_Witness ==
    /\ call.op = "Handle"
    /\ Correlated(call.span)
    /\ call.handler = logger
    /\ logger.handler = <<AttrsItem(<<Attr("component", GoString("api"))>>),
                          GroupItem("req")>>
    /\ Len(effects) = 1
    /\ HasKey(effects[1].record, "span_id")

\* C5: LogHTTPRequest emits one record "HTTP request completed", at Info
\* below 400, Warn from 400 to 499 and Error from 500, whose attributes are
\* http_method, http_path, http_status_code, duration_ms and then the
\* caller's.
C5_LogHTTPRequestShape ==
    call.op = "LogHTTPRequest" =>
        /\ Len(effects) = 1
        /\ effects[1].kind = "handler.Handle"
        /\ LET out   == effects[1].record
               extra == ArgsToAttrs(call.args)
           IN /\ out.msg = "HTTP request completed"
              /\ out.level = (IF call.statusCode < 400 THEN "INFO"
                              ELSE IF call.statusCode < 500 THEN "WARN"
                              ELSE "ERROR")
              /\ Len(out.attrs) >= 4 + Len(extra)
              /\ SubSeq(out.attrs, 1, 4) =
                    <<Attr("http_method", GoString(call.method)),
                      Attr("http_path", GoString(call.path)),
                      Attr("http_status_code", GoInt(call.statusCode)),
                      Attr("duration_ms", GoInt64(call.duration \div 1000000))>>
              /\ SubSeq(out.attrs, 5, 4 + Len(extra)) = extra

C5_Witness ==
    /\ call.op = "LogHTTPRequest"
    /\ call.statusCode = 400
    /\ call.duration = 1500000
    /\ Len(call.args) = 4
    /\ Len(effects) = 1
    /\ effects[1].record.level = "WARN"
    /\ effects[1].record.attrs[4].value = GoInt64(1)

\* C6: LogError logs once, at error level, with the error's description
\* under "error" ahead of the caller's attributes; the error is recorded on
\* the span, before the record is emitted, exactly when the span is
\* recording.
C6_LogErrorRecordsThenLogs ==
    call.op = "LogError" =>
        /\ Len(Deliveries(effects)) = 1
        /\ LET out   == Deliveries(effects)[1].record
               extra == ArgsToAttrs(call.args)
           IN /\ out.level = "ERROR"
              /\ out.msg = call.msg
              /\ Len(out.attrs) >= 1 + Len(extra)
              /\ out.attrs[1] = Attr("error", GoString(call.err.desc))
              /\ SubSeq(out.attrs, 2, 1 + Len(extra)) = extra
        /\ IF IsRecording(call.span)
           THEN /\ Len(effects) = 2
                /\ effects[1] = RecordErrorEffect(call.err)
                /\ effects[2].kind = "handler.Handle"
           ELSE /\ Len(effects) = 1
                /\ effects[1].kind = "handler.Handle"

C6_Witness ==
    /\ call.op = "LogError"
    /\ IsRecording(call.span)
    /\ ~IsValid(call.span)
    /\ Len(call.args) = 2
    /\ Len(effects) = 2
    /\ effects[1].kind = "span.RecordError"
    /\ effects[2].record.attrs[1].value = GoString("connection timeout")

\* The span attribute the claim expects for a mapping entry.
ExpectedKeyValue(e) ==
    CASE e.value.t = "string"  -> KeyValue(e.key, "String", e.value.s, 0)
      [] e.value.t = "int"     -> KeyValue(e.key, "Int", "", e.value.n)
      [] e.value.t = "int64"   -> KeyValue(e.key, "Int64", "", e.value.n)
      [] e.value.t = "float64" -> KeyValue(e.key, "Float64", "", e.value.n)
      [] e.value.t = "bool"    -> KeyValue(e.key, "Bool", "", e.value.n)
      [] OTHER                 -> KeyValue(e.key, "String", Sprint(e.value), 0)

WorkerAttrs(w) ==
    RequestAttrs(workers[w].method, workers[w].endpoint, workers[w].statusCode)
Requested(a, pcs) ==
    { w \in Workers : /\ workers[w].op = "RecordRequest"
                      /\ workers[w].pc \in pcs
                      /\ WorkerAttrs(w) = a }

\* C8: whatever the interleaving, each attribute tuple's request count is
\* the number of RecordRequest calls that passed the counter, and its
\* histogram holds one sample, the duration in seconds, per call that
\* completed; N completed calls leave a total of N and N samples.
C8_NoLostUpdates ==
    /\ \A a \in RequestAttrSets :
          /\ httpMetrics.RequestsTotal[a] = Cardinality(Requested(a, {"added", "done"}))
          /\ BagCardinality(httpMetrics.RequestDuration[a]) =
                Cardinality(Requested(a, {"done"}))
          /\ \A d \in RequestDurations :
                CopiesIn([sec |-> d \div 1000000000, nsec |-> d % 1000000000],
                         httpMetrics.RequestDuration[a]) =
                Cardinality({ w \in Requested(a, {"done"}) : workers[w].duration = d })
    /\ (\A w \in Workers : workers[w].op = "RecordRequest" /\ workers[w].pc = "done") =>
          /\ CounterTotal(httpMetrics.RequestsTotal) = Cardinality(Workers)
          /\ HistogramCount(httpMetrics.RequestDuration) = Cardinality(Workers)

C8_Witness ==
    /\ \A w \in Workers : workers[w].op = "RecordRequest" /\ workers[w].pc = "done"
    /\ \E a \in RequestAttrSets : httpMetrics.RequestsTotal[a] >= 2
    /\ CounterTotal(httpMetrics.RequestsTotal) = Cardinality(Workers)
    /\ HistogramCount(httpMetrics.RequestDuration) = Cardinality(Workers)

\* C9: a RecordError call adds 1 to the error counter under its
\* {error_type, endpoint} and touches neither the request counter nor the
\* histogram; no step of RecordRequest touches the error counter, whatever
\* the status code.
C9_IndependentInstruments ==
    [][\A w \in Workers :
          /\ (workers[w].pc = "idle" /\ workers'[w].op = "RecordError") =>
                /\ httpMetrics'.RequestsTotal = httpMetrics.RequestsTotal
                /\ httpMetrics'.RequestDuration = httpMetrics.RequestDuration
                /\ httpMetrics'.ErrorsTotal =
                      [httpMetrics.ErrorsTotal EXCEPT
                         ![[error_type |-> workers'[w].errorType,
                            endpoint |-> workers'[w].endpoint]] = @ + 1]
          /\ (workers'[w].op = "RecordRequest" /\ workers'[w].pc # workers[w].pc) =>
                httpMetrics'.ErrorsTotal = httpMetrics.ErrorsTotal]_vars

C9_Witness ==
    /\ \E w \in Workers : workers[w].op = "RecordError" /\ workers[w].pc = "done"
    /\ \E w \in Workers : /\ workers[w].op = "RecordRequest"
                           /\ workers[w].pc = "done"
                           /\ workers[w].statusCode = "500"
    /\ CounterTotal(httpMetrics.ErrorsTotal) = 1
    /\ CounterTotal(httpMetrics.RequestsTotal) = 1
    /\ HistogramCount(httpMetrics.RequestDuration) = 1

(***************************************************************************)
(* Properties of the /soma handler (SpecSoma).                             *)
(***************************************************************************)
InvalidParams(r) == ParseFloat(reqs[r].a).err \/ ParseFloat(reqs[r].b).err
InvalidDone == { r \in Reqs : reqs[r].pc = "done" /\ InvalidParams(r) }

\* C10: a /soma request whose a or b does not parse is answered 400, makes
\* no outbound call and no external-call increment, and increments the error
\* counter exactly once with error_type=invalid_parameters.
C10_InvalidParameters ==
    /\ \A r \in InvalidDone :
          /\ ResponseStatus(reqs[r].events) = 400
          /\ outbound[r] = <<>>
          /\ CountKind(reqs[r].events, "client.Do") = 0
          /\ CountKind(reqs[r].events, "externalCallsCounter.Add") = 0
          /\ CountKind(reqs[r].events, "errorCounter.Add") = 1
          /\ Count(reqs[r].events, "errorCounter.Add", "invalid_parameters") = 1
    /\ somaCounters.errorCounter["invalid_parameters"] = Cardinality(InvalidDone)

\* The same statement, of the revision with metrics alone.
C10_InMetricsRevision == revision = "metrics" => C10_InvalidParameters

\* The position of the first event of a kind (0 when there is none).
IndexOf(evs, kind) ==
    IF CountKind(evs, kind) = 0 THEN 0
    ELSE CHOOSE i \in 1..Len(evs) :
            evs[i].kind = kind /\ \A j \in 1..(i - 1) : evs[j].kind # kind

ValidStarted == { r \in Reqs : reqs[r].pc # "idle" /\ ~InvalidParams(r) }

\* The downstream URL with the values of a and b as %f prints them.
ExpectedURL(r) ==
    "http://localhost:8082/calc?a=" \o FormatF(ParseFloat(reqs[r].a).val)
        \o "&b=" \o FormatF(ParseFloat(reqs[r].b).val)

DownstreamFailed == { r \in ValidStarted : reqs[r].pc = "done" /\ reqs[r].resp.err }

\* C12: a /soma request with valid parameters whose downstream call fails is
\* answered 500 and increments the error counter exactly once, with
\* error_type=external_service_error; the other requests can still be served.
C12_DownstreamFailure ==
    /\ \A r \in DownstreamFailed :
          /\ ResponseStatus(reqs[r].events) = 500
          /\ CountKind(reqs[r].events, "errorCounter.Add") = 1
          /\ Count(reqs[r].events, "errorCounter.Add", "external_service_error") = 1
          /\ \A q \in Reqs : reqs[q].pc = "idle" => ENABLED SomaRequest(q)
          /\ \A q \in Reqs : reqs[q].pc = "calling" => ENABLED SomaDownstream(q)
    /\ somaCounters.errorCounter["external_service_error"] = Cardinality(DownstreamFailed)

\* The same statement, of the revision with metrics alone.
C12_InMetricsRevision == revision = "metrics" => C12_DownstreamFailure

DownstreamAnswered == { r \in ValidStarted : reqs[r].pc = "done" /\ ~reqs[r].resp.err }

Non2xx(r) == reqs[r].resp.status < 200 \/ reqs[r].resp.status > 299

\* C21: when the downstream call completes at transport level with a
\* non-2xx status, the handler records external_service_error for the
\* request: one error counter increment and one error-level log record.
C21_Non2xxIsRecordedAsError ==
    \A r \in DownstreamAnswered :
       Non2xx(r) =>
          /\ Count(reqs[r].events, "errorCounter.Add", "external_service_error") = 1
          /\ Count(reqs[r].events, "logWithTrace", "ERROR") = 1

\* What the handler does with such a response: the success path.
C21_Non2xxTakesSuccessPath ==
    \A r \in DownstreamAnswered :
       Non2xx(r) =>
          /\ CountKind(reqs[r].events, "errorCounter.Add") = 0
          /\ Count(reqs[r].events, "logWithTrace", "INFO") = 1
          /\ Count(reqs[r].events, "requestDuration.Record", "200") = 1
          /\ ResponseStatus(reqs[r].events) = 200

SomaDone == { r \in Reqs : reqs[r].pc = "done" }

\* Every event of kind `kind` is there and comes before the first `before`.
AllBefore(evs, kind, before) ==
    /\ CountKind(evs, kind) > 0
    /\ \A i \in 1..Len(evs) : evs[i].kind = kind => i < IndexOf(evs, before)

\* The order of the success path: span start, validation, span attributes,
\* outbound call, then the log and the metric.
SuccessOrder(evs) ==
    /\ IndexOf(evs, "tracer.Start") = 1
    /\ IndexOf(evs, "tracer.Start") < IndexOf(evs, "strconv.ParseFloat")
    /\ IndexOf(evs, "strconv.ParseFloat") < IndexOf(evs, "span.SetAttributes")
    /\ IndexOf(evs, "span.SetAttributes") < IndexOf(evs, "client.Do")
    /\ IndexOf(evs, "client.Do") < IndexOf(evs, "logWithTrace")
    /\ IndexOf(evs, "client.Do") < IndexOf(evs, "requestDuration.Record")

\* C22: on each failure path of a /soma request the error on the span, the
\* error-level log record, the error counter increment and the request
\* metric all come before the error response is written; the success path
\* runs span start, validation, span attributes, outbound call, metric/log.
C22_FailureTelemetryBeforeResponse ==
    \A r \in SomaDone :
       LET evs == reqs[r].events
       IN IF ResponseStatus(evs) \in {400, 500}
          THEN /\ AllBefore(evs, "span.RecordError", "http.Error")
               /\ AllBefore(evs, "logWithTrace", "http.Error")
               /\ AllBefore(evs, "errorCounter.Add", "http.Error")
               /\ AllBefore(evs, "requestDuration.Record", "http.Error")
          ELSE SuccessOrder(evs)

\* The same statement without the log record of the downstream-failure
\* path, which the handler writes after the response.
C22_ExceptFailureLog ==
    \A r \in SomaDone :
       LET evs == reqs[r].events
       IN IF ResponseStatus(evs) \in {400, 500}
          THEN /\ AllBefore(evs, "span.RecordError", "http.Error")
               /\ ResponseStatus(evs) = 400 =>
                     AllBefore(evs, "logWithTrace", "http.Error")
               /\ ResponseStatus(evs) = 500 =>
                     IndexOf(evs, "logWithTrace") = IndexOf(evs, "http.Error") + 1
               /\ AllBefore(evs, "errorCounter.Add", "http.Error")
               /\ AllBefore(evs, "requestDuration.Record", "http.Error")
          ELSE SuccessOrder(evs)

SomaStarted == { r \in Reqs : reqs[r].pc # "idle" }

\* C26: in the revision with metrics every request increments the request
\* counter once, at its start; every finished request has recorded exactly
\* one duration sample, labelled with the status of the response sent; the
\* error counter is incremented at most once, and exactly when that status
\* is 400 or 500.
C26_RequestMetricsMatchResponse ==
    /\ \A r \in SomaStarted :
          /\ CountKind(reqs[r].events, "requestCounter.Add") = 1
          /\ IndexOf(reqs[r].events, "requestCounter.Add") = 2
    /\ \A r \in SomaDone :
          LET evs == reqs[r].events
              status == ResponseStatus(evs)
          IN /\ status \in {200, 400, 500}
             /\ CountKind(evs, "requestDuration.Record") = 1
             /\ Count(evs, "requestDuration.Record", Itoa(status)) = 1
             /\ CountKind(evs, "errorCounter.Add") =
                   IF status \in {400, 500} THEN 1 ELSE 0
    /\ somaCounters.requestCounter = Cardinality(SomaStarted)
    /\ \A st \in SomaStatuses :
          somaCounters.requestDuration[st] =
             Cardinality({ r \in SomaDone : Itoa(ResponseStatus(reqs[r].events)) = st })

C26_Witness ==
    /\ \E r \in SomaDone : ResponseStatus(reqs[r].events) = 500
    /\ \E r \in SomaDone : ResponseStatus(reqs[r].events) = 200
    /\ somaCounters.requestCounter = 2
    /\ somaCounters.requestDuration["500"] = 1
    /\ somaCounters.requestDuration["200"] = 1
    /\ somaCounters.errorCounter["external_service_error"] = 1

\* C27: in the revision with metrics the external-call counter equals the
\* number of outbound calls attempted: one increment, before the call, for
\* each request with valid parameters, whatever the call's outcome, and none
\* on the invalid-parameter path.
C27_ExternalCallsCounted ==
    /\ \A r \in SomaStarted :
          LET evs == reqs[r].events
          IN IF InvalidParams(r)
             THEN CountKind(evs, "externalCallsCounter.Add") = 0
             ELSE /\ CountKind(evs, "externalCallsCounter.Add") = 1
                  /\ IndexOf(evs, "externalCallsCounter.Add") < IndexOf(evs, "client.Do")
                  /\ Len(outbound[r]) = 1
    /\ somaCounters.externalCallsCounter = Cardinality(ValidStarted)

C27_Witness ==
    /\ \E r \in DownstreamFailed : TRUE
    /\ \E r \in InvalidDone : TRUE
    /\ somaCounters.externalCallsCounter = 1

(***************************************************************************)
(* Properties of main (SpecMain).                                          *)
(***************************************************************************)
\* C14: when telemetry setup succeeded, the SDK's shutdown has been invoked
\* exactly once by the time the process has exited, whichever way it exits.
C14_ShutdownOnceBeforeExit ==
    (proc.pc = "exited" /\ proc.setupOk) => proc.shutdownCalls = 1

(***************************************************************************)
(* Properties of SetupWithConfig and NewClient (SpecSetup).                *)
(***************************************************************************)
FixedNames == { "SERVICE_NAME", "SERVICE_VERSION", "ENVIRONMENT" }

FixedField(config, name) ==
    IF name = "SERVICE_NAME" THEN config.ServiceName
    ELSE IF name = "SERVICE_VERSION" THEN config.ServiceVersion
    ELSE IF name = "ENVIRONMENT" THEN config.Environment
    ELSE ""

\* The config holds an override for the variable `name`, and its value.  An
\* Attributes entry is written after the three named fields.
Overridden(config, name) ==
    name \in DOMAIN config.Attributes \/ FixedField(config, name) # ""
OverrideValue(config, name) ==
    IF name \in DOMAIN config.Attributes THEN config.Attributes[name]
    ELSE FixedField(config, name)

HasExpanded == { i \in Setups : setups[i].expanded # <<>> }

PlainPlaceholders   == { k \in 1..Len(ConfigFile) :
                           ConfigFile[k].kind = "var" /\ ~ConfigFile[k].hasDef }
DefaultPlaceholders == { k \in 1..Len(ConfigFile) :
                           ConfigFile[k].kind = "var" /\ ConfigFile[k].hasDef }

\* Once the last override is written the environment holds every override,
\* and the expanded content holds the override at each ${NAME} of an
\* overridden name.
C15_WrittenBeforeExpansion ==
    \A i \in Setups :
       /\ (setups[i].pc = "setenv" /\ setups[i].todo = <<>>) =>
             \A name \in DOMAIN setups[i].config.Attributes \cup FixedNames :
                Overridden(setups[i].config, name) =>
                   /\ IsSet(env, name)
                   /\ Getenv(env, name) = OverrideValue(setups[i].config, name)
       /\ i \in HasExpanded =>
             /\ setups[i].todo = <<>>
             /\ \A k \in PlainPlaceholders :
                   Overridden(setups[i].config, ConfigFile[k].name) =>
                      setups[i].expanded[k] =
                         OverrideValue(setups[i].config, ConfigFile[k].name)

\* No step of an invocation changes a variable whose field is empty (and
\* which Attributes does not name).
C15_EmptyLeavesUntouched ==
    \A i \in Setups : \A name \in FixedNames :
       (setups[i].pc # "idle" /\ ~Overridden(setups[i].config, name)) =>
          /\ IsSet(env', name) = IsSet(env, name)
          /\ Getenv(env', name) = Getenv(env, name)

\* C15: SetupWithConfig writes every non-empty override (the three named
\* fields and each Attributes entry) to the environment before it expands the
\* file content, so ${NAME} of an overridden name expands to the override;
\* an empty ServiceName, ServiceVersion or Environment leaves its variable
\* as it was.
C15_OverridesBeforeExpansion ==
    []C15_WrittenBeforeExpansion /\ [][C15_EmptyLeavesUntouched]_vars

C15_Witness ==
    \E i \in HasExpanded :
       /\ setups[i].config = NewConfig("", "2.0.0", "", "TEAM" :> "platform")
       /\ setups[i].expanded[2] = "from-env"
       /\ setups[i].expanded[4] = "2.0.0"
       /\ setups[i].expanded[8] = "platform"

\* C16: expansion replaces ${VAR} by the value of VAR, and ${VAR:-default}
\* by the value of VAR when VAR is set and by the default when it is unset.
C16_ExpansionWithDefaults ==
    \A i \in HasExpanded :
       /\ \A k \in PlainPlaceholders :
             setups[i].expanded[k] = Getenv(env, ConfigFile[k].name)
       /\ \A k \in DefaultPlaceholders :
             setups[i].expanded[k] =
                IF IsSet(env, ConfigFile[k].name)
                THEN Getenv(env, ConfigFile[k].name)
                ELSE ConfigFile[k].def

\* The part of the statement about ${VAR} alone.
C16_PlainPlaceholders ==
    \A i \in HasExpanded : \A k \in PlainPlaceholders :
       setups[i].expanded[k] = Getenv(env, ConfigFile[k].name)

\* The values an invocation with this config writes to the variable `name`.
WrittenValues(config, name) ==
    (IF FixedField(config, name) # "" THEN { FixedField(config, name) } ELSE {})
    \cup (IF name \in DOMAIN config.Attributes
          THEN { config.Attributes[name] } ELSE {})

Started == { i \in Setups : setups[i].pc # "idle" }

\* C23: concurrent invocations of SetupWithConfig share the process
\* environment: at a ${NAME} whose name an invocation overrides, its expanded
\* content holds a value written for NAME by one of the invocations, its own
\* or that of an invocation running beside it (the witness is the
\* interleaving in which it is the other's).
C23_ExpandedWithSomeOverride ==
    \A i \in HasExpanded : \A k \in PlainPlaceholders :
       Overridden(setups[i].config, ConfigFile[k].name) =>
          \E j \in Started :
             setups[i].expanded[k] \in WrittenValues(setups[j].config, ConfigFile[k].name)

\* Two invocations override SERVICE_NAME with different values, and the
\* content of the one is expanded with the value of the other.
C23_Witness ==
    \E i \in HasExpanded : \E j \in Started \ {i} :
       /\ Overridden(setups[i].config, "SERVICE_NAME")
       /\ Overridden(setups[j].config, "SERVICE_NAME")
       /\ OverrideValue(setups[i].config, "SERVICE_NAME")
             # OverrideValue(setups[j].config, "SERVICE_NAME")
       /\ setups[i].expanded[2] = OverrideValue(setups[j].config, "SERVICE_NAME")
       /\ setups[i].expanded[2] \notin WrittenValues(setups[i].config, "SERVICE_NAME")

\* The invocations that return in this step, and their errors.
Returning == { i \in Setups : setups[i].pc # "returned" /\ setups'[i].pc = "returned" }

\* The global providers are replaced only in a step that returns without
\* error, and by that invocation's SDK; a step that returns an error leaves
\* them as they were; a failed read writes no variable; variables are
\* written only by an invocation that has read its file.
C29_Step ==
    /\ providers' # providers =>
          \E i \in Returning :
             /\ setups[i].pc = "sdk"
             /\ setups'[i].err = "" /\ setups'[i].failed = ""
             /\ providers' = [tracer |-> i, meter |-> i]
    /\ \A i \in Returning :
          /\ setups'[i].err # "" => providers' = providers
          /\ setups'[i].err = "" => providers' = [tracer |-> i, meter |-> i]
          /\ setups'[i].failed = "read" => env' = env
    /\ env' # env =>
          \E i \in Setups : setups[i].pc = "setenv" /\ setups[i].failed = ""

\* An invocation that failed at the file read has no override pending or
\* written; one that failed at the parse or at the SDK creation has left
\* every override in the environment.
C29_OverridesRemain ==
    \A i \in Setups : setups[i].pc = "returned" =>
       /\ setups[i].failed = "read" => setups[i].todo = <<>> /\ setups[i].expanded = <<>>
       /\ setups[i].failed \in { "parse", "sdk" } =>
             \A name \in DOMAIN setups[i].config.Attributes \cup FixedNames :
                Overridden(setups[i].config, name) =>
                   /\ IsSet(env, name)
                   /\ Getenv(env, name) = OverrideValue(setups[i].config, name)

\* C29: SetupWithConfig replaces the global tracer and meter providers only
\* when the file read, the parse and the SDK creation all succeeded; on every
\* error return the providers are unchanged; when the file read fails no
\* environment variable is written; the overrides are written only after a
\* successful read and remain in the environment when the parse or the SDK
\* creation then fails.
C29_ProvidersAndEnvironment ==
    []C29_OverridesRemain /\ [][C29_Step]_vars

\* An invocation overriding SERVICE_NAME has failed at the SDK creation
\* after an earlier one had succeeded: the override is in the environment and
\* the providers are still the earlier invocation's.
C29_Witness ==
    \E i \in Setups :
       /\ setups[i].pc = "returned" /\ setups[i].failed = "sdk"
       /\ setups[i].config.ServiceName = "orders"
       /\ setups[i].config.Attributes = NoEnv
       /\ Getenv(env, "SERVICE_NAME") = "orders"
       /\ providers.tracer \notin { 0, i } /\ providers.meter = providers.tracer

ClientsReturned ==
    { i \in Setups : setups[i].pc = "returned" /\ setups[i].kind = "NewClient" }

\* C17: a client NewClient returns without error has its tracer and its
\* meter scoped to config.ServiceName, or to "unknown-service" when that is
\* empty, and a Logger on a CorrelatedHandler wrapping a JSON handler on
\* standard output.
C17_ClientScopeAndLogger ==
    \A i \in ClientsReturned :
       setups[i].clientErr = "" =>
          LET c == setups[i].client
              expected == IF setups[i].config.ServiceName = ""
                          THEN "unknown-service"
                          ELSE setups[i].config.ServiceName
          IN /\ ~c.nil
             /\ c.Tracer.name = expected
             /\ c.Meter.name = expected
             /\ c.Logger.handler = CorrelatedHandler(<<>>)
             /\ c.Logger.format = "json"
             /\ c.Logger.out = "os.Stdout"

C17_Witness ==
    /\ \E i \in ClientsReturned :
          /\ setups[i].clientErr = ""
          /\ setups[i].config.ServiceName = ""
          /\ setups[i].client.Tracer.name = "unknown-service"
          /\ setups[i].client.Meter.name = "unknown-service"

\* C18: when reading the file, parsing the expanded content or creating the
\* SDK fails, SetupWithConfig returns a nil shutdown with an error and
\* NewClient a nil client with that error; a shutdown function or a client
\* is returned only when nothing failed.
C18_NoDegradedMode ==
    \A i \in Setups :
       /\ setups[i].failed # "" =>
             /\ setups[i].pc = "returned"
             /\ setups[i].shutdown = "nil"
             /\ setups[i].err # ""
             /\ setups[i].kind = "NewClient" =>
                   /\ setups[i].client = NilClient
                   /\ setups[i].clientErr = setups[i].err
       /\ (setups[i].shutdown # "nil" \/ ~setups[i].client.nil) =>
             /\ setups[i].failed = ""
             /\ setups[i].err = ""
             /\ setups[i].clientErr = ""
             /\ setups[i].shutdown = "sdk.Shutdown"
             /\ ~setups[i].client.nil => setups[i].client.shutdown = "sdk.Shutdown"

C18_Witness ==
    \E i \in ClientsReturned :
       /\ setups[i].failed = "sdk"
       /\ setups[i].expanded # <<>>
       /\ setups[i].client.nil
       /\ setups[i].clientErr = "failed to create OpenTelemetry SDK"

(***************************************************************************)
(* Properties of NewHTTPMetrics and HTTPMiddleware (SpecMiddleware).       *)
(***************************************************************************)
IsPrefix(s, t) == Len(s) <= Len(t) /\ s = SubSeq(t, 1, Len(s))

\* C19: NewHTTPMetrics creates http_requests_total,
\* http_request_duration_seconds and http_errors_total in that order; when a
\* creation fails it returns a nil recorder and an error and creates none of
\* the later instruments; it returns a recorder only when all three exist.
C19_InstrumentsInOrder ==
    /\ IsPrefix(mk.created, << "http_requests_total",
                               "http_request_duration_seconds",
                               "http_errors_total" >>)
    /\ mk.pc # "returned" => mk.nil /\ mk.err = ""
    /\ (mk.pc = "returned" /\ ~mk.nil) => Len(mk.created) = 3 /\ mk.err = ""
    /\ (mk.pc = "returned" /\ mk.nil) =>
          /\ Len(mk.created) < 3
          /\ mk.err = InstrumentErrors[Len(mk.created) + 1]
    /\ (\E r \in MwReqs : mw[r].pc # "idle") => ~mk.nil

C19_Witness ==
    /\ mk.pc = "returned"
    /\ mk.nil
    /\ mk.created = << "http_requests_total" >>
    /\ mk.err = "failed to create duration histogram"

MwDone == { r \in MwReqs : mw[r].pc = "done" }

MwRecordCalls(r, op) == SelectSeq(mw[r].calls, LAMBDA c : c.op = op)

\* C20: once the wrapped handler has returned, the middleware has called
\* RecordRequest exactly once, with the request's method, its path and the
\* captured status (200 when the handler never called WriteHeader), and
\* RecordError exactly once if the status is >= 400 (client_error up to 499,
\* server_error from 500) and not at all otherwise.
C20_MiddlewareRecords ==
    /\ \A r \in MwDone :
          LET status == mw[r].statusCode
          IN /\ (mw[r].writes = mw[r].body) => status = 200
             /\ MwRecordCalls(r, "RecordRequest") =
                   << MwCall("RecordRequest", mw[r].method, mw[r].path,
                             Itoa(status), "") >>
             /\ status < 400 => MwRecordCalls(r, "RecordError") = <<>>
             /\ (status >= 400 /\ status <= 499) =>
                   MwRecordCalls(r, "RecordError") =
                      << MwCall("RecordError", "", mw[r].path, "", "client_error") >>
             /\ status >= 500 =>
                   MwRecordCalls(r, "RecordError") =
                      << MwCall("RecordError", "", mw[r].path, "", "server_error") >>
    /\ CounterTotal(mwMetrics.RequestsTotal) = Cardinality(MwDone)
    /\ HistogramCount(mwMetrics.RequestDuration) = Cardinality(MwDone)
    /\ CounterTotal(mwMetrics.ErrorsTotal) =
          Cardinality({ r \in MwDone : mw[r].statusCode >= 400 })
    /\ \A a \in MwRequestAttrSets :
          mwMetrics.RequestsTotal[a] =
             Cardinality({ r \in MwDone :
                 a = RequestAttrs(mw[r].method, mw[r].path, Itoa(mw[r].statusCode)) })

C20_Witness ==
    /\ \E r \in MwDone :
          /\ mw[r].statusCode = 400 /\ mw[r].method = "POST" /\ mw[r].body = 1
          /\ Len(MwRecordCalls(r, "RecordRequest")) = 1
          /\ Len(MwRecordCalls(r, "RecordError")) = 1
    /\ mwMetrics.ErrorsTotal[[error_type |-> "client_error",
                              endpoint |-> "/api/users"]] = 1
    /\ mwMetrics.RequestsTotal[RequestAttrs("POST", "/api/users", "400")] = 1


\* The status the middleware recorded for request r is `status`, in
\* RecordRequest, in RecordError and in the span's http.status_code.
MwRecorded(r, status) ==
    /\ \A k \in DOMAIN mw[r].calls :
          mw[r].calls[k].op \in { "RecordRequest", "span.SetAttributes" } =>
             mw[r].calls[k].statusCode = Itoa(status)
    /\ MwRecordCalls(r, "RecordError") =
          IF status >= 400
          THEN << MwCall("RecordError", "", mw[r].path, "",
                         IF status >= 500 THEN "server_error" ELSE "client_error") >>
          ELSE <<>>

\* C28: the status the middleware records (in RecordRequest, in RecordError
\* and in the span's http.status_code) is the status sent to the client,
\* whatever calls of WriteHeader and Write the wrapped handler made.
C28_RecordedStatusIsSent ==
    \A r \in MwDone : MwRecorded(r, mw[r].sent)

\* What holds: the recorded status is the argument of the last WriteHeader
\* (200 without one), which is the status sent when the handler made at
\* most one call on the writer.
C28_RecordedStatusIsLastWritten ==
    \A r \in MwDone :
       /\ MwRecorded(r, mw[r].statusCode)
       /\ mw[r].writes <= 1 => mw[r].statusCode = mw[r].sent

(***************************************************************************)
(* Properties of ExampleUsage (SpecExample).                               *)
(***************************************************************************)
OpsAfterShutdown == { k \in DOMAIN ex.ops : ex.ops[k].shutdowns > 0 }

\* C24: in ExampleUsage no operation of the client (a span started with its
\* tracer, a recording through its instruments, a log through its logger) is
\* made after Shutdown was invoked on it, and Shutdown is invoked at most
\* once on the client.
C24_NoUseAfterShutdown ==
    /\ OpsAfterShutdown = {}
    /\ ex.shutdowns <= 1

\* The parts of the statement that hold: Shutdown is invoked at most once,
\* and the operations ExampleUsage makes itself come before it.
C24_ShutdownAtMostOnce == ex.shutdowns <= 1 /\ ex.sdkShutdowns <= 1
C24_OwnOperationsBeforeShutdown ==
    \A k \in OpsAfterShutdown : ex.ops[k].by = "handler"

====
